---- MODULE Spec2Model ----
(***************************************************************************)
(* A model of the agent execution framework and the debt settlement engine *)
(* of FairSplit_AI.                                                        *)
(*                                                                         *)
(*   - DebtOptimizerAgent (src/src/agents/DebtOptimizerAgent.ts) run       *)
(*     through BaseAgent.run: execute, the two-pointer loop of             *)
(*     optimizeDebts one iteration per step, then validateOutput.          *)
(*   - AgentOrchestrator (src/src/agents/base/AgentOrchestrator.ts):       *)
(*     addTask, registerAgent and execute, one task of the sorted list per *)
(*     step, the awaited agent.run as a step of its own.                   *)
(*   - BaseAgent.run of any agent (same file): the guardrails of           *)
(*     validateInput one per step, execute, validateOutput, the finally    *)
(*     block and logExecution; and BaseAgent.retryWithBackoff.             *)
(*   - RateLimitGuardrail (src/src/guardrails/Guardrails.ts).              *)
(*   - DebtOptimizerAgent.detectCircularDebts.                             *)
(*   - The fairness scores: calculateGini (src/src/lib/utils.ts) as        *)
(*     EmotionalIntelligenceAgent.calculateMetrics calls it, and           *)
(*     DebtOptimizerAgent.calculateFairnessScore.                          *)
(*                                                                         *)
(* Money.  The source computes with IEEE doubles that hold amounts of two  *)
(* decimals.  The model holds a monetary value as an integer number of     *)
(* thousandths of the currency unit (0.01 is 10, 0.5 is 500), so that      *)
(* roundTo(x, 2) is a real rounding to a multiple of 10 and not the        *)
(* identity.  Debt amounts are positive multiples of 0.01 (section 3 of    *)
(* the specification).  The one place where the binary representation      *)
(* decides an outcome, the comparison difference > 0.01 of validateOutput  *)
(* on a difference of exactly one cent, is a nondeterministic choice.      *)
(***************************************************************************)
EXTENDS Integers, Sequences, FiniteSets, TLC

(***************************************************************************)
(* Bounds of the model.                                                    *)
(***************************************************************************)
NumParties == 3
MaxDebts == 2
MaxAmountCents == 2
MaxTasks == 2
MaxDeps == 2

(***************************************************************************)
(* Program constants, in thousandths of the currency unit.                 *)
(***************************************************************************)
DefaultMinimumAmount == 500
MinTransactionAmount == 10
BalanceTolerance == 10

VARIABLES
    \* ---- DebtOptimizerAgent, one call of run ----
    debts,            \* input.debts
    minimumAmount,    \* input.minimumAmount (default 0.5)
    netPositions,     \* execute: const netPositions
    creditors,        \* optimizeDebts: creditors (balances updated in place)
    debtors,          \* optimizeDebts: debtors (balances negated, updated in place)
    i,                \* optimizeDebts: creditor index (0-based, as in the source)
    j,                \* optimizeDebts: debtor index
    transactions,     \* optimizeDebts: transactions
    iterations,       \* number of iterations of the matching loop so far
    result,           \* run: let result (Undefined until execute returns)
    success,          \* run: let success
    error,            \* run: let error ("" while undefined)
    phase,            \* Created, Executing, ValidatingOutput, Succeeded, Failed
    \* ---- AgentOrchestrator: the fields of the instance ----
    agents,           \* this.agents: the types an agent is registered for
    taskQueue,        \* this.taskQueue
    added,            \* the number of calls of addTask so far
    results,          \* this.results: Map<taskId, TaskResult> in insertion order
    \* ---- AgentOrchestrator.execute: the locals of each call ----
    pc,               \* idle, loop, awaiting, returned, threw
    queued,           \* the queue as the call found it
    sorted,           \* const sorted
    index,            \* the number of tasks of sorted the for loop has taken up
    errors,           \* const errors
    pending,          \* the tasks whose agent.run has been called and has not settled
    invoked,          \* the tasks whose agent.run has been called, in order
    agentInput,       \* the input handed to the last agent.run
    outcome,          \* what the call returned or threw
    \* ---- BaseAgent.run of any agent, one call ----
    guardrails,       \* this.guardrails, in the order of addGuardrail
    runInput,         \* input
    outputOverride,   \* what the subclass made of validateOutput
    runPhase,         \* Created, ValidatingInput, Executing, ValidatingOutput,
                      \* Finally, Logging, Returned, Threw
    guardrailIndex,   \* validateInput: the guardrails the for loop has gone through
    evaluated,        \* the guardrails whose validate was called, in order
    executeCalls,     \* the number of calls of this.execute
    runResult,        \* let result
    runSuccess,       \* let success
    runError,         \* let error (None while undefined)
    logCalls,         \* the metrics logExecution was called with, in order
    auditLog,         \* the records prisma.auditLog.create has stored
    runOutcome,       \* what run returned or threw
    \* ---- BaseAgent.retryWithBackoff, one call ----
    maxAttempts,      \* maxAttempts
    initialDelayMs,   \* initialDelayMs
    attempt,          \* let attempt
    lastError,        \* let lastError (None while undefined)
    fnCalls,          \* the number of calls of fn
    fnInFlight,       \* the calls of fn that have not settled
    delays,           \* the delays waited with setTimeout, in order
    retryPc,          \* Created, Calling, Awaiting, Waiting, Returned, Threw
    retryOutcome,     \* what retryWithBackoff returned or threw
    \* ---- RateLimitGuardrail, one instance and the checks made of it ----
    maxRequests,      \* this.maxRequests
    requests,         \* this.requests: identifier -> timestamps
    clock,            \* Date.now()
    checkPc,          \* of each check: idle, read, done
    checkIdentifier,  \* of each check: const identifier
    checkNow,         \* of each check: const now
    validHistory,     \* of each check: const validHistory
    checkResult,      \* of each check: the ValidationResult returned
    \* ---- DebtOptimizerAgent.detectCircularDebts ----
    detected,         \* what detectCircularDebts(debts) returned (None before)
    \* ---- The fairness scores ----
    patterns,         \* the netPosition of each SpendingPattern given to
                      \* EmotionalIntelligenceAgent.calculateMetrics
    metrics,          \* what calculateMetrics(patterns) returned (None before)
    fairness          \* what calculateFairnessScore(debts) returned (None before)

settleVars == <<debts, minimumAmount, netPositions, creditors, debtors, i, j,
                transactions, iterations, result, success, error, phase>>

orchVars == <<agents, taskQueue, added, results, pc, queued, sorted, index, errors,
              pending, invoked, agentInput, outcome>>

runVars == <<guardrails, runInput, outputOverride, runPhase, guardrailIndex,
             evaluated, executeCalls, runResult, runSuccess, runError, logCalls,
             auditLog, runOutcome>>

retryVars == <<maxAttempts, initialDelayMs, attempt, lastError, fnCalls,
               fnInFlight, delays, retryPc, retryOutcome>>

rateVars == <<maxRequests, requests, clock, checkPc, checkIdentifier, checkNow,
              validHistory, checkResult>>

cycleVars == <<detected>>

giniVars == <<patterns, metrics, fairness>>

vars == <<settleVars, orchVars, runVars, retryVars, rateVars, cycleVars, giniVars>>

\* What a step of the one component leaves alone.
outsideSettle == <<orchVars, runVars, retryVars, rateVars, cycleVars, giniVars>>

outsideOrch == <<settleVars, runVars, retryVars, rateVars, cycleVars, giniVars>>

outsideRun == <<settleVars, orchVars, retryVars, rateVars, cycleVars, giniVars>>

outsideRetry == <<settleVars, orchVars, runVars, rateVars, cycleVars, giniVars>>

outsideRate == <<settleVars, orchVars, runVars, retryVars, cycleVars, giniVars>>

outsideCycles == <<settleVars, orchVars, runVars, retryVars, rateVars, giniVars>>

outsideGini == <<settleVars, orchVars, runVars, retryVars, rateVars, cycleVars>>

(***************************************************************************)
(* Arithmetic helpers.                                                     *)
(***************************************************************************)
Abs(x) == IF x < 0 THEN -x ELSE x

Min(a, b) == IF a <= b THEN a ELSE b

Max(a, b) == IF a >= b THEN a ELSE b

RECURSIVE Pow10(_)
Pow10(n) == IF n <= 0 THEN 1 ELSE 10 * Pow10(n - 1)

\* utils.ts roundTo: Math.round(value * 10^decimals) / 10^decimals.
\* Math.round(x) is floor(x + 1/2).  On thousandths, with q = 10^(3 - decimals):
\* floor(value / q + 1/2) * q  =  ((2 * value + q) \div (2 * q)) * q.
roundTo(value, decimals) ==
    LET q == Pow10(3 - decimals)
    IN  ((2 * value + q) \div (2 * q)) * q

Undefined == [undefined |-> TRUE]

\* An optional value: undefined, or a value.
None == <<>>

Some(x) == <<x>>

Range(s) == {s[k] : k \in 1..Len(s)}

(***************************************************************************)
(* Inputs.                                                                 *)
(***************************************************************************)
Parties == 1..NumParties

Amounts == {c * 10 : c \in 1..MaxAmountCents} \cup {DefaultMinimumAmount}

Debt == [from : Parties, to : Parties, amount : Amounts]

\* A debt is between two different parties.
Debts == {d \in Debt : d.from # d.to}

RECURSIVE SeqsUpTo(_, _)
SeqsUpTo(S, n) ==
    IF n = 0 THEN {<<>>}
    ELSE LET shorter == SeqsUpTo(S, n - 1)
         IN  shorter \cup {Append(s, x) : s \in {t \in shorter : Len(t) = n - 1}, x \in S}

DebtLists == SeqsUpTo(Debts, MaxDebts)

\* minimumAmount: no forgiveness, a threshold of two cents, the default.
MinimumAmounts == {0, 2 * MinTransactionAmount, DefaultMinimumAmount}

(***************************************************************************)
(* Map<string, number> in insertion order, as a sequence of                *)
(* [person, balance] records.                                              *)
(***************************************************************************)
PositionIndex(positions, person) ==
    IF \E k \in 1..Len(positions) : positions[k].person = person
    THEN CHOOSE k \in 1..Len(positions) : positions[k].person = person
    ELSE 0

\* positions.get(person) || 0, and newBalances[person] || 0
MapGet(positions, person) ==
    LET k == PositionIndex(positions, person)
    IN  IF k = 0 THEN 0 ELSE positions[k].balance

\* positions.set(person, balance): a new key goes to the end
MapSet(positions, person, balance) ==
    LET k == PositionIndex(positions, person)
    IN  IF k = 0
        THEN Append(positions, [person |-> person, balance |-> balance])
        ELSE [positions EXCEPT ![k].balance = balance]

Persons(positions) == {positions[k].person : k \in 1..Len(positions)}

(***************************************************************************)
(* DebtOptimizerAgent.calculateNetPositions                                 *)
(***************************************************************************)
\* The loop body with the sign of the creditor's update slipped.
ProcessDebtBothDebited(positions, debt) ==
    LET afterFrom == MapSet(positions, debt.from,
                            MapGet(positions, debt.from) - debt.amount)
    IN  MapSet(afterFrom, debt.to, MapGet(afterFrom, debt.to) - debt.amount)

\* One iteration of the loop over the debts (lines 92-98).
ProcessDebt(positions, debt) ==
    LET afterFrom == MapSet(positions, debt.from,
                            MapGet(positions, debt.from) - debt.amount)
    IN  MapSet(afterFrom, debt.to, MapGet(afterFrom, debt.to) + debt.amount)

\* A loop that stops after the first debt.
ProcessFirstDebt(positions, ds) ==
    IF ds = <<>> THEN positions ELSE ProcessDebt(positions, Head(ds))

RECURSIVE ProcessDebts(_, _)
ProcessDebts(positions, ds) ==
    IF ds = <<>> THEN positions
    ELSE ProcessDebts(ProcessDebt(positions, Head(ds)), Tail(ds))

calculateNetPositions(ds) ==
    LET positions == ProcessDebts(<<>>, ds)
    IN  [k \in 1..Len(positions) |->
            [person  |-> positions[k].person,
             balance |-> roundTo(positions[k].balance, 2)]]

(***************************************************************************)
(* DebtOptimizerAgent.execute and optimizeDebts                             *)
(***************************************************************************)
\* execute without the forgiveness filter.
unfilteredPositions(positions, minimum) == positions

\* execute, lines 58-60: the forgiveness filter
filteredPositions(positions, minimum) ==
    SelectSeq(positions, LAMBDA np : Abs(np.balance) >= minimum)

\* Array.prototype.sort((a, b) => b.balance - a.balance): descending and
\* stable, so an element goes after the earlier elements that are not smaller.
RECURSIVE InsertDescending(_, _)
InsertDescending(ordered, np) ==
    IF ordered = <<>> THEN <<np>>
    ELSE IF Head(ordered).balance >= np.balance
         THEN <<Head(ordered)>> \o InsertDescending(Tail(ordered), np)
         ELSE <<np>> \o ordered

RECURSIVE SortDescending(_)
SortDescending(s) ==
    IF s = <<>> THEN <<>>
    ELSE InsertDescending(SortDescending(SubSeq(s, 1, Len(s) - 1)), s[Len(s)])

\* optimizeDebts, lines 115-117
Creditors(positions) ==
    SortDescending(SelectSeq(positions, LAMBDA np : np.balance > 0))

\* optimizeDebts, lines 119-122
Debtors(positions) ==
    LET negative == SelectSeq(positions, LAMBDA np : np.balance < 0)
    IN  SortDescending([k \in 1..Len(negative) |->
                           [person  |-> negative[k].person,
                            balance |-> -negative[k].balance]])

\* A matching step that settles one cent at a time.
SettleAmountOneCent(creditor, debtor) ==
    Min(Min(creditor.balance, debtor.balance), MinTransactionAmount)

\* optimizeDebts, line 133
SettleAmount(creditor, debtor) == Min(creditor.balance, debtor.balance)

\* A threshold that leaves out the amount of exactly one cent.
AboveOneCent(amount) == amount > MinTransactionAmount

\* optimizeDebts, line 135: if (amount >= 0.01)
WorthATransaction(amount) == amount >= MinTransactionAmount

\* A transaction with the payer and the payee exchanged.
TransactionReversed(debtor, creditor, amount) ==
    [from |-> creditor.person, to |-> debtor.person, amount |-> roundTo(amount, 2)]

\* optimizeDebts, lines 136-140: the pushed transaction
Transaction(debtor, creditor, amount) ==
    [from |-> debtor.person, to |-> creditor.person, amount |-> roundTo(amount, 2)]

\* A test that no balance passes, so that neither pointer moves.
SettledBelowZero(balance) == balance < 0

\* optimizeDebts, lines 148-149: balance === 0
Settled(balance) == balance = 0

RECURSIVE SumAmounts(_)
SumAmounts(ts) == IF ts = <<>> THEN 0 ELSE Head(ts).amount + SumAmounts(Tail(ts))

\* execute, lines 65-81: the returned DebtOptimizeOutput
Output(ds, positions, ts) ==
    [originalTransactions  |-> Len(ds),
     optimizedTransactions |-> Len(ts),
     transactions          |-> ts,
     saved                 |-> Len(ds) - Len(ts),
     totalAmount           |-> roundTo(SumAmounts(ts), 2),
     balances              |-> [p \in Persons(positions) |->
                                   roundTo(MapGet(positions, p), 2)]]

\* execute, lines 43-52
EmptyOutput ==
    [originalTransactions  |-> 0,
     optimizedTransactions |-> 0,
     transactions          |-> <<>>,
     saved                 |-> 0,
     totalAmount           |-> 0,
     balances              |-> [p \in {} |-> 0]]

(***************************************************************************)
(* DebtOptimizerAgent.validateOutput                                        *)
(***************************************************************************)
\* lines 175-177: Math.abs(originalBalance - newBalance) > 0.01.  Two doubles
\* that hold amounts one cent apart differ by a little more or a little less
\* than the double 0.01 (0.3 - 0.29 > 0.01, 10.01 - 10 < 0.01); the difference
\* is exact when one of them is 0.  fpAbove is the outcome of that rounding.
DifferenceExceeds(originalBalance, newBalance, fpAbove) ==
    LET difference == Abs(originalBalance - newBalance)
    IN  IF difference = BalanceTolerance
        THEN originalBalance # 0 /\ newBalance # 0 /\ fpAbove
        ELSE difference > BalanceTolerance

\* A validateOutput that looks only at the persons of the replayed transactions.
MismatchedPersonsInBoth(output, fpAbove) ==
    LET newPositions == calculateNetPositions(output.transactions)
    IN  {person \in DOMAIN output.balances \cap Persons(newPositions) :
            DifferenceExceeds(output.balances[person],
                              MapGet(newPositions, person), fpAbove)}

\* lines 173-183: the persons whose comparison throws
MismatchedPersons(output, fpAbove) ==
    LET newPositions == calculateNetPositions(output.transactions)
    IN  {person \in DOMAIN output.balances :
            DifferenceExceeds(output.balances[person],
                              MapGet(newPositions, person), fpAbove)}

validateOutputThrows(output, fpAbove) == MismatchedPersons(output, fpAbove) # {}

(***************************************************************************)
(* BaseAgent.run of the DebtOptimizerAgent, which registers no guardrail,   *)
(* so that validateInput accepts every input.  The audit record that the   *)
(* finally block of run writes does not touch the state below.             *)
(***************************************************************************)
\* The agent as constructed, before run is called.
SettleCreated ==
    /\ netPositions = <<>>
    /\ creditors = <<>>
    /\ debtors = <<>>
    /\ i = 0
    /\ j = 0
    /\ transactions = <<>>
    /\ iterations = 0
    /\ result = Undefined
    /\ success = FALSE
    /\ error = ""
    /\ phase = "Created"

\* run, lines 246-249, and execute, lines 41-63 up to the loop of optimizeDebts
ExecuteBegin ==
    /\ phase = "Created"
    /\ debts # <<>>
    /\ netPositions' = calculateNetPositions(debts)
    /\ creditors' = Creditors(filteredPositions(netPositions', minimumAmount))
    /\ debtors' = Debtors(filteredPositions(netPositions', minimumAmount))
    /\ phase' = "Executing"
    /\ UNCHANGED <<debts, minimumAmount, i, j, transactions, iterations,
                   result, success, error>>
    /\ UNCHANGED outsideSettle

\* execute, lines 43-52: no debts
ExecuteEmpty ==
    /\ phase = "Created"
    /\ debts = <<>>
    /\ result' = EmptyOutput
    /\ phase' = "ValidatingOutput"
    /\ UNCHANGED <<debts, minimumAmount, netPositions, creditors, debtors, i, j,
                   transactions, iterations, success, error>>
    /\ UNCHANGED outsideSettle

\* optimizeDebts, lines 128-150: one iteration of the while loop
MatchStep ==
    /\ phase = "Executing"
    /\ i < Len(creditors) /\ j < Len(debtors)
    /\ LET creditor == creditors[i + 1]
           debtor   == debtors[j + 1]
           amount   == SettleAmount(creditor, debtor)
           creditorBalance == roundTo(creditor.balance - amount, 2)
           debtorBalance   == roundTo(debtor.balance - amount, 2)
       IN  /\ transactions' =
                 IF WorthATransaction(amount)
                 THEN Append(transactions, Transaction(debtor, creditor, amount))
                 ELSE transactions
           /\ creditors' = [creditors EXCEPT ![i + 1].balance = creditorBalance]
           /\ debtors' = [debtors EXCEPT ![j + 1].balance = debtorBalance]
           /\ i' = IF Settled(creditorBalance) THEN i + 1 ELSE i
           /\ j' = IF Settled(debtorBalance) THEN j + 1 ELSE j
    /\ iterations' = iterations + 1
    /\ UNCHANGED <<debts, minimumAmount, netPositions, result, success, error, phase>>
    /\ UNCHANGED outsideSettle

\* optimizeDebts, line 152, and execute, lines 65-81: the loop has ended
ExecuteReturn ==
    /\ phase = "Executing"
    /\ ~(i < Len(creditors) /\ j < Len(debtors))
    /\ result' = Output(debts, netPositions, transactions)
    /\ phase' = "ValidatingOutput"
    /\ UNCHANGED <<debts, minimumAmount, netPositions, creditors, debtors, i, j,
                   transactions, iterations, success, error>>
    /\ UNCHANGED outsideSettle

\* run, lines 252-255: validateOutput returns, run returns result
ValidateOutputPasses ==
    /\ phase = "ValidatingOutput"
    /\ \E fpAbove \in BOOLEAN : ~validateOutputThrows(result, fpAbove)
    /\ success' = TRUE
    /\ phase' = "Succeeded"
    /\ UNCHANGED <<debts, minimumAmount, netPositions, creditors, debtors, i, j,
                   transactions, iterations, result, error>>
    /\ UNCHANGED outsideSettle

\* run, lines 252 and 256-259: validateOutput throws, run rethrows
ValidateOutputThrows ==
    /\ phase = "ValidatingOutput"
    /\ \E fpAbove \in BOOLEAN : validateOutputThrows(result, fpAbove)
    /\ error' = "Balance mismatch"
    /\ phase' = "Failed"
    /\ UNCHANGED <<debts, minimumAmount, netPositions, creditors, debtors, i, j,
                   transactions, iterations, result, success>>
    /\ UNCHANGED outsideSettle

(***************************************************************************)
(* AgentOrchestrator.  The fields of the instance are shared by the calls  *)
(* of execute; each call has its own locals.  A call runs without          *)
(* interruption up to the await of agent.run: another call can take a step *)
(* only while no call is inside the loop.                                  *)
(***************************************************************************)
CallIds == {1, 2}

TaskIds == 1..MaxTasks

\* A dependency may name an id that no task of the queue has.
DepIds == 1..(MaxTasks + 1)

Types == {"debtOptimizer", "receiptParser"}

\* The types the application has an agent for.
AgentTypes == {"debtOptimizer"}

RECURSIVE DistinctSeqsUpTo(_, _)
DistinctSeqsUpTo(S, n) ==
    IF n = 0 THEN {<<>>}
    ELSE LET shorter == DistinctSeqsUpTo(S, n - 1)
         IN  shorter \cup
             UNION {{Append(s, x) : x \in S \ Range(s)} :
                        s \in {t \in shorter : Len(t) = n - 1}}

DependencyLists == DistinctSeqsUpTo(DepIds, MaxDeps)

\* interface Task; the input is an opaque payload, here named after the task.
Task(id) ==
    [id : {id}, type : Types, input : {[payload |-> id]},
     dependencies : DependencyLists]

\* What the agent of a task returns when it succeeds.
AgentOutput(task) == [producedBy |-> task.id]

(***************************************************************************)
(* this.results: Map<string, TaskResult> in insertion order, as a sequence  *)
(* of TaskResult records.                                                   *)
(***************************************************************************)
HasResult(rs, taskId) == \E k \in 1..Len(rs) : rs[k].taskId = taskId

\* this.results.get(taskId), for a taskId that has a result
ResultOf(rs, taskId) == rs[CHOOSE k \in 1..Len(rs) : rs[k].taskId = taskId]

\* this.results.set(r.taskId, r)
SetResult(rs, r) ==
    IF HasResult(rs, r.taskId)
    THEN [k \in 1..Len(rs) |-> IF rs[k].taskId = r.taskId THEN r ELSE rs[k]]
    ELSE Append(rs, r)

\* execute, lines 86-91
SuccessResult(task, output) ==
    [taskId |-> task.id, success |-> TRUE, output |-> Some(output), error |-> ""]

\* execute, lines 96-101
FailureResult(task, errorMessage) ==
    [taskId |-> task.id, success |-> FALSE, output |-> None, error |-> errorMessage]

\* execute, line 94
ErrorEntry(task, errorMessage) == [task |-> task.id, message |-> errorMessage]

(***************************************************************************)
(* AgentOrchestrator.topologicalSort                                        *)
(***************************************************************************)
\* tasks.find(t => t.id === depId): the index of the first such task, or 0
FindTask(tasks, depId) ==
    IF \E k \in 1..Len(tasks) : tasks[k].id = depId
    THEN CHOOSE k \in 1..Len(tasks) :
             /\ tasks[k].id = depId
             /\ \A m \in 1..(k - 1) : tasks[m].id # depId
    ELSE 0

\* A visit that returns when it meets a task that is being visited.
IgnoreRevisit(st, task) == st

\* visit, lines 158-160: throw new Error(`Circular dependency detected ...`)
CircularDependency(st, task) == [st EXCEPT !.thrown = Some(task.id)]

\* visit, lines 155-176.  st holds sorted, visited, visiting and the error
\* thrown, if any; once an error is thrown nothing else is done.
RECURSIVE visit(_, _, _)
RECURSIVE visitDependencies(_, _, _)
visit(tasks, task, st) ==
    IF st.thrown # None THEN st
    ELSE IF task.id \in st.visited THEN st
    ELSE IF task.id \in st.visiting THEN CircularDependency(st, task)
    ELSE LET entered == [st EXCEPT !.visiting = @ \cup {task.id}]
             after   == visitDependencies(tasks, task.dependencies, entered)
         IN  IF after.thrown # None THEN after
             ELSE [after EXCEPT !.visiting = @ \ {task.id},
                                !.visited  = @ \cup {task.id},
                                !.sorted   = Append(@, task)]

\* visit, lines 164-171: the loop over task.dependencies
visitDependencies(tasks, deps, st) ==
    IF deps = <<>> \/ st.thrown # None THEN st
    ELSE LET k == FindTask(tasks, Head(deps))
         IN  visitDependencies(tasks, Tail(deps),
                               IF k = 0 THEN st ELSE visit(tasks, tasks[k], st))

\* topologicalSort, lines 178-180: the loop over the tasks
RECURSIVE visitAll(_, _, _)
visitAll(tasks, k, st) ==
    IF k > Len(tasks) THEN st
    ELSE visitAll(tasks, k + 1, visit(tasks, tasks[k], st))

topologicalSort(tasks) ==
    visitAll(tasks, 1,
             [sorted |-> <<>>, visited |-> {}, visiting |-> {}, thrown |-> None])

(***************************************************************************)
(* AgentOrchestrator.execute                                                *)
(***************************************************************************)
\* A dependency check that asks only for a recorded result.
DependencyRecorded(rs, depId) == HasResult(rs, depId)

\* execute, lines 63-66: result && result.success
DependencyMet(rs, depId) == HasResult(rs, depId) /\ ResultOf(rs, depId).success

\* execute, lines 62-67; a task without dependencies has them met
dependenciesMet(rs, task) ==
    \A k \in 1..Len(task.dependencies) : DependencyMet(rs, task.dependencies[k])

\* A prepareInput that hands the task's input on as it is.
inputWithoutDependencies(rs, task) == task.input

\* prepareInput, lines 127-145; lines 135-136 are a check of their own:
\* result && result.success
prepareInput(rs, task) ==
    IF Len(task.dependencies) = 0 THEN task.input
    ELSE [payload      |-> task.input.payload,
          dependencies |-> [depId \in {d \in Range(task.dependencies) :
                                          /\ HasResult(rs, d)
                                          /\ ResultOf(rs, d).success} |->
                               ResultOf(rs, depId).output[1]]]

\* A call that does not wait for the agent it has started.
AgentRunNotAwaited == "loop"

\* execute, line 83: await agent.run(input, userId) suspends the call
AwaitAgentRun == "awaiting"

\* A catch block that ends the loop.
AbortAfterCatch(next, length) == length

\* execute, lines 92-103: after the catch block the for loop goes on with the
\* next task of sorted
ContinueAfterCatch(next, length) == next

\* A report that is a success whatever the errors.
ReportSuccessAlways(errs) == Len(errs) >= 0

\* execute, line 106: success: errors.length === 0
ReportSuccess(errs) == Len(errs) = 0

\* execute, lines 105-110, without the durations
Report(rs, errs) ==
    [kind |-> "report", success |-> ReportSuccess(errs), results |-> rs, errors |-> errs]

\* The rejection of the promise execute returned.
Thrown(taskId) == [kind |-> "CircularDependency", task |-> taskId]

NoOutcome == [kind |-> "none"]

\* No other call is inside the loop of execute.
CpuFree(c) == \A d \in CallIds \ {c} : pc[d] # "loop"

NoCallStarted == \A c \in CallIds : pc[c] = "idle"

\* The task of sorted with this id.
SortedTask(c, taskId) == sorted[c][CHOOSE k \in 1..Len(sorted[c]) : sorted[c][k].id = taskId]

\* The orchestrator as constructed.
OrchCreated ==
    /\ agents = {}
    /\ taskQueue = <<>>
    /\ added = 0
    /\ results = <<>>
    /\ pc = [c \in CallIds |-> "idle"]
    /\ queued = [c \in CallIds |-> <<>>]
    /\ sorted = [c \in CallIds |-> <<>>]
    /\ index = [c \in CallIds |-> 0]
    /\ errors = [c \in CallIds |-> <<>>]
    /\ pending = [c \in CallIds |-> {}]
    /\ invoked = [c \in CallIds |-> <<>>]
    /\ agentInput = [c \in CallIds |-> None]
    /\ outcome = [c \in CallIds |-> NoOutcome]

\* registerAgent, lines 33-35
RegisterAgent(type) ==
    /\ agents' = agents \cup {type}
    /\ UNCHANGED added
    /\ UNCHANGED <<taskQueue, results, pc, queued, sorted, index, errors, pending,
                   invoked, agentInput, outcome>>
    /\ UNCHANGED outsideOrch

\* addTask, lines 40-42
AddTask(task) ==
    /\ taskQueue' = Append(taskQueue, task)
    /\ added' = added + 1
    /\ UNCHANGED <<agents, results, pc, queued, sorted, index, errors, pending,
                   invoked, agentInput, outcome>>
    /\ UNCHANGED outsideOrch

\* execute, lines 48-54, and lines 111-114 when topologicalSort throws
StartExecute(c) ==
    /\ pc[c] = "idle"
    /\ CpuFree(c)
    /\ queued' = [queued EXCEPT ![c] = taskQueue]
    /\ errors' = [errors EXCEPT ![c] = <<>>]
    /\ results' = <<>>
    /\ index' = [index EXCEPT ![c] = 0]
    /\ LET st == topologicalSort(taskQueue)
       IN  IF st.thrown # None
           THEN /\ pc' = [pc EXCEPT ![c] = "threw"]
                /\ outcome' = [outcome EXCEPT ![c] = Thrown(st.thrown[1])]
                /\ taskQueue' = <<>>
                /\ UNCHANGED sorted
           ELSE /\ pc' = [pc EXCEPT ![c] = "loop"]
                /\ sorted' = [sorted EXCEPT ![c] = st.sorted]
                /\ UNCHANGED <<outcome, taskQueue>>
    /\ UNCHANGED added
    /\ UNCHANGED <<agents, pending, invoked, agentInput>>
    /\ UNCHANGED outsideOrch

\* execute, lines 62-70 and 92-102: a dependency of the task has no
\* successful result
DependenciesNotSatisfied(c) ==
    /\ pc[c] = "loop"
    /\ index[c] < Len(sorted[c])
    /\ LET task == sorted[c][index[c] + 1]
           errorMessage == "Dependencies not satisfied"
       IN  /\ ~dependenciesMet(results, task)
           /\ errors' = [errors EXCEPT ![c] = Append(@, ErrorEntry(task, errorMessage))]
           /\ results' = SetResult(results, FailureResult(task, errorMessage))
    /\ index' = [index EXCEPT ![c] = ContinueAfterCatch(@ + 1, Len(sorted[c]))]
    /\ UNCHANGED added
    /\ UNCHANGED <<agents, taskQueue, pc, queued, sorted, pending, invoked,
                   agentInput, outcome>>
    /\ UNCHANGED outsideOrch

\* execute, lines 74-77 and 92-102: no agent is registered for the type
NoAgentRegistered(c) ==
    /\ pc[c] = "loop"
    /\ index[c] < Len(sorted[c])
    /\ LET task == sorted[c][index[c] + 1]
           errorMessage == "No agent registered"
       IN  /\ dependenciesMet(results, task)
           /\ task.type \notin agents
           /\ errors' = [errors EXCEPT ![c] = Append(@, ErrorEntry(task, errorMessage))]
           /\ results' = SetResult(results, FailureResult(task, errorMessage))
    /\ index' = [index EXCEPT ![c] = ContinueAfterCatch(@ + 1, Len(sorted[c]))]
    /\ UNCHANGED added
    /\ UNCHANGED <<agents, taskQueue, pc, queued, sorted, pending, invoked,
                   agentInput, outcome>>
    /\ UNCHANGED outsideOrch

\* execute, lines 80-83: agent.run is called with the prepared input; the
\* loop has taken up the task and waits for its agent
InvokeAgent(c) ==
    /\ pc[c] = "loop"
    /\ index[c] < Len(sorted[c])
    /\ LET task == sorted[c][index[c] + 1]
       IN  /\ dependenciesMet(results, task)
           /\ task.type \in agents
           /\ agentInput' = [agentInput EXCEPT ![c] = Some(prepareInput(results, task))]
           /\ pending' = [pending EXCEPT ![c] = @ \cup {task.id}]
           /\ invoked' = [invoked EXCEPT ![c] = Append(@, task.id)]
    /\ index' = [index EXCEPT ![c] = @ + 1]
    /\ pc' = [pc EXCEPT ![c] = AwaitAgentRun]
    /\ UNCHANGED added
    /\ UNCHANGED <<agents, taskQueue, results, queued, sorted, errors, outcome>>
    /\ UNCHANGED outsideOrch

\* execute, lines 83-91: agent.run resolves and the call resumes
AgentReturns(c) ==
    /\ CpuFree(c)
    /\ \E taskId \in pending[c] :
          LET task == SortedTask(c, taskId)
          IN  /\ results' = SetResult(results, SuccessResult(task, AgentOutput(task)))
              /\ pending' = [pending EXCEPT ![c] = @ \ {taskId}]
    /\ pc' = [pc EXCEPT ![c] = "loop"]
    /\ UNCHANGED added
    /\ UNCHANGED <<agents, taskQueue, queued, sorted, index, errors, invoked,
                   agentInput, outcome>>
    /\ UNCHANGED outsideOrch

\* execute, lines 83 and 92-102: agent.run rejects and the call resumes
AgentThrows(c) ==
    /\ CpuFree(c)
    /\ \E taskId \in pending[c] :
          LET task == SortedTask(c, taskId)
              errorMessage == "Agent failed"
          IN  /\ errors' = [errors EXCEPT ![c] = Append(@, ErrorEntry(task, errorMessage))]
              /\ results' = SetResult(results, FailureResult(task, errorMessage))
              /\ pending' = [pending EXCEPT ![c] = @ \ {taskId}]
    /\ index' = [index EXCEPT ![c] = ContinueAfterCatch(@, Len(sorted[c]))]
    /\ pc' = [pc EXCEPT ![c] = "loop"]
    /\ UNCHANGED added
    /\ UNCHANGED <<agents, taskQueue, queued, sorted, invoked, agentInput, outcome>>
    /\ UNCHANGED outsideOrch

\* execute, lines 105-114: the loop has ended
ExecuteReturns(c) ==
    /\ pc[c] = "loop"
    /\ index[c] >= Len(sorted[c])
    /\ outcome' = [outcome EXCEPT ![c] = Report(results, errors[c])]
    /\ taskQueue' = <<>>
    /\ pc' = [pc EXCEPT ![c] = "returned"]
    /\ UNCHANGED added
    /\ UNCHANGED <<agents, results, queued, sorted, index, errors, pending, invoked,
                   agentInput>>
    /\ UNCHANGED outsideOrch

(***************************************************************************)
(* BaseAgent.run of any agent: validateInput over the registered           *)
(* guardrails, execute, validateOutput, and the finally block that builds  *)
(* the metrics and calls logExecution.                                     *)
(***************************************************************************)
MaxGuardrails == 2

\* Guardrails.ts: the name of ContentGuardrail and of OutputGuardrail
GuardrailNames == {"ContentSafety", "OutputValidation"}

Reasons == {"Potential prompt injection detected", "Invalid output structure"}

\* A guardrail, by what its validate answers for the input of the call and
\* for the output of execute: { valid: true }, { valid: false, reason }, or an
\* error thrown from validate.
ValidGuardrails ==
    [name : GuardrailNames, onInput : {"valid", "throws"}, reason : {None},
     onOutput : {"valid", "invalid"}]

InvalidGuardrails ==
    [name : GuardrailNames, onInput : {"invalid"}, reason : {Some(r) : r \in Reasons},
     onOutput : {"valid", "invalid"}]

Guardrails == ValidGuardrails \cup InvalidGuardrails

GuardrailLists == SeqsUpTo(Guardrails, MaxGuardrails)

\* The values an input or an output is one of (TInput = any, TOutput = any):
\* a plain object, an object JSON.stringify throws on (a cycle, a BigInt),
\* and undefined.
Values == {"object", "cyclic", "undefined"}

\* run, line 271: result ? ... : 0
Truthy(value) == value # "undefined"

\* run, lines 270-271: JSON.stringify(value).length throws a TypeError when
\* stringify throws and when it returns undefined
StringifyLengthThrows(value) == value \in {"cyclic", "undefined"}

\* What a subclass made of validateOutput: nothing (the default of lines
\* 300-303), a check that accepts the output, a check that throws.
OutputOverrides == {"default", "accepts", "rejects"}

\* validateInput, line 292
ValidationError(guardrail) ==
    [kind |-> "Input validation failed", guardrail |-> guardrail.name,
     reason |-> guardrail.reason]

\* The error a guardrail's validate threw.
GuardrailError(guardrail) == [kind |-> "validate threw", guardrail |-> guardrail.name]

ExecuteError == [kind |-> "execute threw"]

OutputError == [kind |-> "validateOutput threw"]

\* The TypeError of JSON.stringify(...).length in the finally block.
MetricsError == [kind |-> "TypeError"]

\* A validateInput that accepts whatever the guardrail answers.
InputNeverRejected(verdict) == FALSE

\* validateInput, line 291: !result.valid
InputRejected(verdict) == verdict = "invalid"

\* A validateInput that notes the failure and goes on to the next guardrail.
FailAccumulate == "ValidatingInput"

\* validateInput, line 292, and run, lines 256-260: the throw leaves the loop
\* and run, through the catch block, for the finally block
FailFast == "Finally"

\* run, lines 263-272, the fields the claims speak of
Metrics(isSuccess, err) == [success |-> isSuccess, error |-> err]

Returned(value) == [kind |-> "returned", value |-> value]

Threw(err) == [kind |-> "threw", error |-> err]

\* run, lines 255 and 259: what the try statement resolved to before the
\* finally block ran
Primary(isSuccess, res, err) ==
    IF isSuccess THEN Returned(res[1]) ELSE Threw(err[1])

\* The agent as constructed and the guardrails added, before run is called.
RunCreated ==
    /\ runPhase = "Created"
    /\ guardrailIndex = 0
    /\ evaluated = <<>>
    /\ executeCalls = 0
    /\ runResult = None
    /\ runSuccess = FALSE
    /\ runError = None
    /\ logCalls = <<>>
    /\ auditLog = <<>>
    /\ runOutcome = NoOutcome

\* No agent of this kind is in use.
RunIdle ==
    /\ guardrails = <<>>
    /\ runInput = "object"
    /\ outputOverride = "default"
    /\ RunCreated

\* run, lines 239-246: the locals are set and validateInput is called
RunCalled ==
    /\ runPhase = "Created"
    /\ runPhase' = "ValidatingInput"
    /\ UNCHANGED <<guardrails, runInput, outputOverride, guardrailIndex, evaluated,
                   executeCalls, runResult, runSuccess, runError, logCalls,
                   auditLog, runOutcome>>
    /\ UNCHANGED outsideRun

\* validateInput, lines 289-294: the guardrail answers { valid: true }
GuardrailAccepts ==
    /\ runPhase = "ValidatingInput"
    /\ guardrailIndex < Len(guardrails)
    /\ LET guardrail == guardrails[guardrailIndex + 1]
       IN  /\ guardrail.onInput # "throws"
           /\ ~InputRejected(guardrail.onInput)
    /\ evaluated' = Append(evaluated, guardrailIndex + 1)
    /\ guardrailIndex' = guardrailIndex + 1
    /\ UNCHANGED <<guardrails, runInput, outputOverride, runPhase, executeCalls,
                   runResult, runSuccess, runError, logCalls, auditLog, runOutcome>>
    /\ UNCHANGED outsideRun

\* validateInput, lines 290-293, and run, lines 256-259: the guardrail answers
\* { valid: false }, validateInput throws and the catch block notes the error
GuardrailRejects ==
    /\ runPhase = "ValidatingInput"
    /\ guardrailIndex < Len(guardrails)
    /\ LET guardrail == guardrails[guardrailIndex + 1]
       IN  /\ guardrail.onInput # "throws"
           /\ InputRejected(guardrail.onInput)
           /\ runError' = Some(ValidationError(guardrail))
    /\ evaluated' = Append(evaluated, guardrailIndex + 1)
    /\ guardrailIndex' = guardrailIndex + 1
    /\ runPhase' = FailFast
    /\ UNCHANGED <<guardrails, runInput, outputOverride, executeCalls, runResult,
                   runSuccess, logCalls, auditLog, runOutcome>>
    /\ UNCHANGED outsideRun

\* validateInput, line 290, and run, lines 256-259: validate itself throws
GuardrailThrows ==
    /\ runPhase = "ValidatingInput"
    /\ guardrailIndex < Len(guardrails)
    /\ LET guardrail == guardrails[guardrailIndex + 1]
       IN  /\ guardrail.onInput = "throws"
           /\ runError' = Some(GuardrailError(guardrail))
    /\ evaluated' = Append(evaluated, guardrailIndex + 1)
    /\ guardrailIndex' = guardrailIndex + 1
    /\ runPhase' = "Finally"
    /\ UNCHANGED <<guardrails, runInput, outputOverride, executeCalls, runResult,
                   runSuccess, logCalls, auditLog, runOutcome>>
    /\ UNCHANGED outsideRun

\* run, line 249: validateInput has returned and execute is called
ExecuteInvoked ==
    /\ runPhase = "ValidatingInput"
    /\ guardrailIndex >= Len(guardrails)
    /\ executeCalls' = executeCalls + 1
    /\ runPhase' = "Executing"
    /\ UNCHANGED <<guardrails, runInput, outputOverride, guardrailIndex, evaluated,
                   runResult, runSuccess, runError, logCalls, auditLog, runOutcome>>
    /\ UNCHANGED outsideRun

\* run, lines 249-252: execute resolves and validateOutput is called
ExecuteResolves(output) ==
    /\ runPhase = "Executing"
    /\ runResult' = Some(output)
    /\ runPhase' = "ValidatingOutput"
    /\ UNCHANGED <<guardrails, runInput, outputOverride, guardrailIndex, evaluated,
                   executeCalls, runSuccess, runError, logCalls, auditLog, runOutcome>>
    /\ UNCHANGED outsideRun

\* run, lines 249 and 256-259: execute rejects
ExecuteRejects ==
    /\ runPhase = "Executing"
    /\ runError' = Some(ExecuteError)
    /\ runPhase' = "Finally"
    /\ UNCHANGED <<guardrails, runInput, outputOverride, guardrailIndex, evaluated,
                   executeCalls, runResult, runSuccess, logCalls, auditLog, runOutcome>>
    /\ UNCHANGED outsideRun

\* run, lines 252-255, and validateOutput, lines 300-303: validateOutput
\* returns; no guardrail is called
OutputAccepted ==
    /\ runPhase = "ValidatingOutput"
    /\ outputOverride # "rejects"
    /\ runSuccess' = TRUE
    /\ runPhase' = "Finally"
    /\ UNCHANGED <<guardrails, runInput, outputOverride, guardrailIndex, evaluated,
                   executeCalls, runResult, runError, logCalls, auditLog, runOutcome>>
    /\ UNCHANGED outsideRun

\* run, lines 252 and 256-259: the validateOutput of the subclass throws
OutputRejected ==
    /\ runPhase = "ValidatingOutput"
    /\ outputOverride = "rejects"
    /\ runError' = Some(OutputError)
    /\ runPhase' = "Finally"
    /\ UNCHANGED <<guardrails, runInput, outputOverride, guardrailIndex, evaluated,
                   executeCalls, runResult, runSuccess, logCalls, auditLog, runOutcome>>
    /\ UNCHANGED outsideRun

\* run, lines 262-274: the metrics are built and logExecution is called
MetricsBuilt ==
    /\ runPhase = "Finally"
    /\ ~StringifyLengthThrows(runInput)
    /\ ~(runResult # None /\ Truthy(runResult[1]) /\ StringifyLengthThrows(runResult[1]))
    /\ logCalls' = Append(logCalls, Metrics(runSuccess, runError))
    /\ runPhase' = "Logging"
    /\ UNCHANGED <<guardrails, runInput, outputOverride, guardrailIndex, evaluated,
                   executeCalls, runResult, runSuccess, runError, auditLog, runOutcome>>
    /\ UNCHANGED outsideRun

\* run, lines 270-271: JSON.stringify(input).length or
\* JSON.stringify(result).length throws inside the finally block; the error
\* takes the place of what the try statement had resolved to
MetricsThrow ==
    /\ runPhase = "Finally"
    /\ \/ StringifyLengthThrows(runInput)
       \/ runResult # None /\ Truthy(runResult[1]) /\ StringifyLengthThrows(runResult[1])
    /\ runOutcome' = Threw(MetricsError)
    /\ runPhase' = "Threw"
    /\ UNCHANGED <<guardrails, runInput, outputOverride, guardrailIndex, evaluated,
                   executeCalls, runResult, runSuccess, runError, logCalls, auditLog>>
    /\ UNCHANGED outsideRun

\* logExecution, lines 310-319, and run, lines 255 and 259: the record is
\* stored and run ends as the try statement had resolved
AuditStored ==
    /\ runPhase = "Logging"
    /\ auditLog' = Append(auditLog, logCalls[Len(logCalls)])
    /\ runOutcome' = Primary(runSuccess, runResult, runError)
    /\ runPhase' = IF runSuccess THEN "Returned" ELSE "Threw"
    /\ UNCHANGED <<guardrails, runInput, outputOverride, guardrailIndex, evaluated,
                   executeCalls, runResult, runSuccess, runError, logCalls>>
    /\ UNCHANGED outsideRun

\* logExecution, lines 320-323: prisma.auditLog.create rejects, the error is
\* written to the console and run ends as the try statement had resolved
AuditFails ==
    /\ runPhase = "Logging"
    /\ runOutcome' = Primary(runSuccess, runResult, runError)
    /\ runPhase' = IF runSuccess THEN "Returned" ELSE "Threw"
    /\ UNCHANGED <<guardrails, runInput, outputOverride, guardrailIndex, evaluated,
                   executeCalls, runResult, runSuccess, runError, logCalls, auditLog>>
    /\ UNCHANGED outsideRun

(***************************************************************************)
(* BaseAgent.retryWithBackoff (utils.ts retry is the same loop).  fn is    *)
(* any fallible operation: its k-th call resolves to a value or rejects    *)
(* with an error, each of them marked with k.                              *)
(***************************************************************************)
MaxRetryAttempts == 4

\* retryWithBackoff, lines 331-332: the default parameters
DefaultMaxAttempts == 3

DefaultInitialDelayMs == 1000

AttemptLimits == 0..MaxRetryAttempts

InitialDelays == {0, DefaultInitialDelayMs, 2 * DefaultInitialDelayMs}

FnValue(k) == [value |-> k]

FnError(k) == [kind |-> "fn threw", attempt |-> k]

\* Math.pow(base, exponent) for a natural exponent
RECURSIVE Pow(_, _)
Pow(base, exponent) == IF exponent <= 0 THEN 1 ELSE base * Pow(base, exponent - 1)

\* A delay that does not grow.
ConstantDelay(initial, attemptNo) == initial

\* retryWithBackoff, line 343
BackoffDelay(initial, attemptNo) == initial * Pow(2, attemptNo - 1)

\* retryWithBackoff, line 338: return await fn()
AwaitFn == "Awaiting"

\* throw lastError, line 350: undefined when no attempt was made
LastErrorThrown(err) == IF err = None THEN Threw(Undefined) ELSE Threw(err[1])

RetryCreated ==
    /\ attempt = 0
    /\ lastError = None
    /\ fnCalls = 0
    /\ fnInFlight = 0
    /\ delays = <<>>
    /\ retryPc = "Created"
    /\ retryOutcome = NoOutcome

\* No retry is in use.
RetryIdle ==
    /\ maxAttempts = DefaultMaxAttempts
    /\ initialDelayMs = DefaultInitialDelayMs
    /\ RetryCreated

\* retryWithBackoff, lines 334-336: let lastError; let attempt = 1
RetryCalled ==
    /\ retryPc = "Created"
    /\ attempt' = 1
    /\ retryPc' = "Loop"
    /\ UNCHANGED <<maxAttempts, initialDelayMs, lastError, fnCalls, fnInFlight,
                   delays, retryOutcome>>
    /\ UNCHANGED outsideRetry

\* lines 336-338: attempt <= maxAttempts, fn is called and awaited
FnInvoked ==
    /\ retryPc = "Loop"
    /\ attempt <= maxAttempts
    /\ fnCalls' = fnCalls + 1
    /\ fnInFlight' = fnInFlight + 1
    /\ retryPc' = AwaitFn
    /\ UNCHANGED <<maxAttempts, initialDelayMs, attempt, lastError, delays,
                   retryOutcome>>
    /\ UNCHANGED outsideRetry

\* line 338: fn resolves and its value is returned
FnResolves ==
    /\ retryPc = "Awaiting"
    /\ fnInFlight > 0
    /\ fnInFlight' = fnInFlight - 1
    /\ retryOutcome' = Returned(FnValue(attempt))
    /\ retryPc' = "Returned"
    /\ UNCHANGED <<maxAttempts, initialDelayMs, attempt, lastError, fnCalls, delays>>
    /\ UNCHANGED outsideRetry

\* lines 339-347: fn rejects; before the last attempt the timer is set, after
\* it the loop goes to its test
FnRejects ==
    /\ retryPc = "Awaiting"
    /\ fnInFlight > 0
    /\ fnInFlight' = fnInFlight - 1
    /\ lastError' = Some(FnError(attempt))
    /\ IF attempt < maxAttempts
       THEN /\ delays' = Append(delays, BackoffDelay(initialDelayMs, attempt))
            /\ retryPc' = "Waiting"
            /\ UNCHANGED attempt
       ELSE /\ attempt' = attempt + 1
            /\ retryPc' = "Loop"
            /\ UNCHANGED delays
    /\ UNCHANGED <<maxAttempts, initialDelayMs, fnCalls, retryOutcome>>
    /\ UNCHANGED outsideRetry

\* line 345 and the attempt++ of line 336: the timer fires
TimerFires ==
    /\ retryPc = "Waiting"
    /\ attempt' = attempt + 1
    /\ retryPc' = "Loop"
    /\ UNCHANGED <<maxAttempts, initialDelayMs, lastError, fnCalls, fnInFlight,
                   delays, retryOutcome>>
    /\ UNCHANGED outsideRetry

\* lines 336 and 350: attempt > maxAttempts, throw lastError
RetryThrows ==
    /\ retryPc = "Loop"
    /\ attempt > maxAttempts
    /\ retryOutcome' = LastErrorThrown(lastError)
    /\ retryPc' = "Threw"
    /\ UNCHANGED <<maxAttempts, initialDelayMs, attempt, lastError, fnCalls,
                   fnInFlight, delays>>
    /\ UNCHANGED outsideRetry

(***************************************************************************)
(* RateLimitGuardrail (src/src/guardrails/Guardrails.ts).  validate is an  *)
(* async function without an await in its body: a call of it runs from the *)
(* read of this.requests to the write without another call in between.     *)
(***************************************************************************)
NumChecks == 3

MaxRequestLimit == 2

WindowMs == 2

MaxClock == 2

Checks == 1..NumChecks

\* The inputs, by the two fields validate reads ("" when the field is absent).
RateInputs == [userId : {"", "user-1"}, ipAddress : {"", "10.0.0.1"}]

\* validate, line 223: input.userId || input.ipAddress || 'anonymous'
Identifier(input) ==
    IF input.userId # "" THEN input.userId
    ELSE IF input.ipAddress # "" THEN input.ipAddress
    ELSE "anonymous"

Identifiers == {Identifier(input) : input \in RateInputs}

\* validate, lines 227-230: the history of the identifier without the
\* timestamps that have left the window
ValidHistory(history, now) ==
    SelectSeq(history, LAMBDA timestamp : now - timestamp < WindowMs)

\* A test that lets one request more through.
LimitOverrun(history, limit) == Len(history) > limit

\* validate, line 233: validHistory.length >= this.maxRequests
LimitReached(history, limit) == Len(history) >= limit

\* validate, lines 234-241
LimitExceeded == [valid |-> FALSE, remaining |-> 0]

\* validate, lines 248-253
Accepted(limit, history) == [valid |-> TRUE, remaining |-> limit - Len(history)]

\* A validate that gives way to other calls between its read and its write.
ValidateYields(k) == TRUE

\* validate, lines 222-254: no await between the read of line 227 and the
\* write of line 246, so that no other call is between the two
ValidateRunsToCompletion(k) == \A other \in Checks \ {k} : checkPc[other] # "read"

RateCreated ==
    /\ requests = [identifier \in Identifiers |-> <<>>]
    /\ clock = 0
    /\ checkPc = [k \in Checks |-> "idle"]
    /\ checkIdentifier = [k \in Checks |-> ""]
    /\ checkNow = [k \in Checks |-> 0]
    /\ validHistory = [k \in Checks |-> <<>>]
    /\ checkResult = [k \in Checks |-> None]

\* No rate limit is in use.
RateIdle ==
    /\ maxRequests = MaxRequestLimit
    /\ RateCreated

\* validate, lines 223-230: the identifier, the time and the history are read
CheckReads(k, input) ==
    /\ checkPc[k] = "idle"
    /\ ValidateRunsToCompletion(k)
    /\ checkIdentifier' = [checkIdentifier EXCEPT ![k] = Identifier(input)]
    /\ checkNow' = [checkNow EXCEPT ![k] = clock]
    /\ validHistory' = [validHistory EXCEPT
                           ![k] = ValidHistory(requests[Identifier(input)], clock)]
    /\ checkPc' = [checkPc EXCEPT ![k] = "read"]
    /\ UNCHANGED <<maxRequests, requests, clock, checkResult>>
    /\ UNCHANGED outsideRate

\* validate, lines 233-241: the limit is reached
CheckRejects(k) ==
    /\ checkPc[k] = "read"
    /\ LimitReached(validHistory[k], maxRequests)
    /\ checkResult' = [checkResult EXCEPT ![k] = Some(LimitExceeded)]
    /\ checkPc' = [checkPc EXCEPT ![k] = "done"]
    /\ UNCHANGED <<maxRequests, requests, clock, checkIdentifier, checkNow, validHistory>>
    /\ UNCHANGED outsideRate

\* validate, lines 245-253: the request is added and the history written back
CheckAccepts(k) ==
    /\ checkPc[k] = "read"
    /\ ~LimitReached(validHistory[k], maxRequests)
    /\ LET pushed == Append(validHistory[k], checkNow[k])
       IN  /\ validHistory' = [validHistory EXCEPT ![k] = pushed]
           /\ requests' = [requests EXCEPT ![checkIdentifier[k]] = pushed]
           /\ checkResult' = [checkResult EXCEPT ![k] = Some(Accepted(maxRequests, pushed))]
    /\ checkPc' = [checkPc EXCEPT ![k] = "done"]
    /\ UNCHANGED <<maxRequests, clock, checkIdentifier, checkNow>>
    /\ UNCHANGED outsideRate

\* Date.now() moves on by a millisecond.
ClockTicks ==
    /\ clock < MaxClock
    /\ \A k \in Checks : checkPc[k] # "read"
    /\ clock' = clock + 1
    /\ UNCHANGED <<maxRequests, requests, checkPc, checkIdentifier, checkNow,
                   validHistory, checkResult>>
    /\ UNCHANGED outsideRate

(***************************************************************************)
(* DebtOptimizerAgent.detectCircularDebts                                   *)
(***************************************************************************)
MaxCycleDebts == 3

\* Debts of one and the same amount, as in a circle of equal debts.
EqualDebts == {d \in Debts : d.amount = MinTransactionAmount}

EqualDebtLists == SeqsUpTo(EqualDebts, MaxCycleDebts)

\* lines 198-204: the adjacency list, a Map<string, Debt[]> in insertion
\* order as a sequence of [person, edges] records; an edge is the debt with
\* its index in the list (0-based, as in the source)
GraphIndex(graph, person) ==
    IF \E k \in 1..Len(graph) : graph[k].person = person
    THEN CHOOSE k \in 1..Len(graph) : graph[k].person = person
    ELSE 0

\* graph.get(person) || []
GraphGet(graph, person) ==
    LET k == GraphIndex(graph, person)
    IN  IF k = 0 THEN <<>> ELSE graph[k].edges

RECURSIVE BuildGraph(_, _, _)
BuildGraph(graph, ds, debtIndex) ==
    IF debtIndex >= Len(ds) THEN graph
    ELSE LET debt == ds[debtIndex + 1]
             edge == [from |-> debt.from, to |-> debt.to, amount |-> debt.amount,
                      index |-> debtIndex]
             k    == GraphIndex(graph, debt.from)
         IN  BuildGraph(IF k = 0
                        THEN Append(graph, [person |-> debt.from, edges |-> <<edge>>])
                        ELSE [graph EXCEPT ![k].edges = Append(@, edge)],
                        ds, debtIndex + 1)

\* line 222: !edge.index || !used.has(edge.index)
EdgeFollowed(edge, used) == edge.index = 0 \/ edge.index \notin used

\* lines 210-230: dfs(person, start).  st holds visited, path and circles;
\* used is empty until the search is over.
RECURSIVE dfs(_, _, _, _)
RECURSIVE dfsEdges(_, _, _, _)
dfs(graph, person, start, st) ==
    IF person \in st.visited
    THEN IF person = start /\ Len(st.path) >= 3
         THEN [st EXCEPT !.circles = Append(@, st.path)]
         ELSE st
    ELSE LET entered == [st EXCEPT !.visited = @ \cup {person}]
             after   == dfsEdges(graph, GraphGet(graph, person), start, entered)
         IN  [after EXCEPT !.visited = @ \ {person}]

\* lines 221-227: the loop over the edges of a person
dfsEdges(graph, edges, start, st) ==
    IF edges = <<>> THEN st
    ELSE LET edge == Head(edges)
             next == IF EdgeFollowed(edge, {})
                     THEN LET pushed == [st EXCEPT !.path = Append(@, edge)]
                              back   == dfs(graph, edge.to, start, pushed)
                          IN  [back EXCEPT !.path = SubSeq(@, 1, Len(@) - 1)]
                     ELSE st
         IN  dfsEdges(graph, Tail(edges), start, next)

\* lines 233-235: the search from every key of the graph
RECURSIVE dfsAll(_, _, _)
dfsAll(graph, k, st) ==
    IF k > Len(graph) THEN st
    ELSE dfsAll(graph, k + 1, dfs(graph, graph[k].person, graph[k].person, st))

\* No debt is marked as used.
NoIndexes(circles) == {}

\* lines 238-242: the indexes of the debts of the circles
UsedIndexes(circles) ==
    UNION {{circles[c][e].index : e \in 1..Len(circles[c])} : c \in 1..Len(circles)}

\* line 245: debts.filter((_, index) => !used.has(index))
RECURSIVE RemainingDebts(_, _, _)
RemainingDebts(ds, used, debtIndex) ==
    IF debtIndex >= Len(ds) THEN <<>>
    ELSE (IF debtIndex \in used THEN <<>> ELSE <<ds[debtIndex + 1]>>)
         \o RemainingDebts(ds, used, debtIndex + 1)

detectCircularDebts(ds) ==
    LET graph   == BuildGraph(<<>>, ds, 0)
        st      == dfsAll(graph, 1, [visited |-> {}, path |-> <<>>, circles |-> <<>>])
        circles == st.circles
    IN  [circular  |-> circles,
         remaining |-> RemainingDebts(ds, UsedIndexes(circles), 0)]

CyclesIdle == detected = None

\* lines 190-248: detectCircularDebts is called with the debts
DetectCircularDebts ==
    /\ detected = None
    /\ detected' = Some(detectCircularDebts(debts))
    /\ UNCHANGED outsideCycles

(***************************************************************************)
(* The fairness scores: utils.ts calculateGini with                        *)
(* EmotionalIntelligenceAgent.calculateMetrics, and                        *)
(* DebtOptimizerAgent.calculateFairnessScore.  A Gini coefficient is held  *)
(* in ten-thousandths and a fairness score in tenths, the digits the code  *)
(* rounds them to; the quotients before rounding are kept as a numerator   *)
(* and a denominator.                                                      *)
(***************************************************************************)
MaxPatterns == 4
MaxImbalance == 2

\* roundTo(gini, 4): the coefficient 1 in ten-thousandths
GiniScale == 10000

\* roundTo(score, 1): the score 100 in tenths
ScoreScale == 1000

NetPositionLists == SeqsUpTo(-MaxImbalance..MaxImbalance, MaxPatterns)

\* patterns.map(p => Math.abs(p.netPosition)), netPositions.map(np => Math.abs(np.balance))
Magnitudes(values) == [k \in 1..Len(values) |-> Abs(values[k])]

\* sorted.reduce((sum, val) => sum + val, 0)
RECURSIVE SumValues(_)
SumValues(values) == IF values = <<>> THEN 0 ELSE Head(values) + SumValues(Tail(values))

\* The inner loop: the distances of one value to every value.
RECURSIVE SumDistances(_, _)
SumDistances(value, values) ==
    IF values = <<>> THEN 0
    ELSE Abs(value - Head(values)) + SumDistances(value, Tail(values))

\* The double loop over sorted: it adds |sorted[i] - sorted[j]| for every pair
\* of indexes, a sum that the ascending order of sorted does not change.
RECURSIVE NumeratorFrom(_, _)
NumeratorFrom(rest, values) ==
    IF rest = <<>> THEN 0
    ELSE SumDistances(Head(rest), values) + NumeratorFrom(Tail(rest), values)

GiniNumerator(values) == NumeratorFrom(values, values)

\* A denominator without the factor 2.
DenominatorWithoutTwo(n, total) == n * total

\* utils.ts line 196: 2 * n * n * mean, where mean is total / n
GiniDenominator(n, total) == 2 * n * total

\* roundTo(num / den, d) in units of 1 / scale, for scale = 10^d:
\* Math.round(x) is floor(x + 1/2).  When x lies exactly half way between two
\* integers the double that the division and the multiplication produce may
\* lie on either side of the half, and halfUp is the outcome.
RoundQuotient(num, den, scale, halfUp) ==
    LET rounded == (2 * num * scale + den) \div (2 * den)
        halfWay == (2 * num * scale + den) % (2 * den) = 0
    IN  IF halfWay /\ ~halfUp THEN rounded - 1 ELSE rounded

\* utils.ts calculateGini, lines 180-198
calculateGini(values, halfUp) ==
    IF Len(values) = 0 THEN 0
    ELSE IF SumValues(values) = 0 THEN 0
    ELSE RoundQuotient(GiniNumerator(values),
                       GiniDenominator(Len(values), SumValues(values)),
                       GiniScale, halfUp)

\* A score that is the coefficient itself, as a percentage.
ScoreOfInequality(giniCoefficient, halfUp) ==
    RoundQuotient(giniCoefficient, GiniScale, ScoreScale, halfUp)

\* calculateMetrics, line 121: roundTo((1 - giniCoefficient) * 100, 1)
ScoreOfCoefficient(giniCoefficient, halfUp) ==
    RoundQuotient(GiniScale - giniCoefficient, GiniScale, ScoreScale, halfUp)

\* EmotionalIntelligenceAgent.calculateMetrics, lines 118-121
calculateMetrics(netPositionValues, giniHalfUp, scoreHalfUp) ==
    LET giniCoefficient == calculateGini(Magnitudes(netPositionValues), giniHalfUp)
    IN  [giniCoefficient |-> giniCoefficient,
         fairnessScore   |-> ScoreOfCoefficient(giniCoefficient, scoreHalfUp)]

\* DebtOptimizerAgent.calculateFairnessScore, lines 253-289: the score is
\* rounded from the quotient, not from the rounded coefficient.
calculateFairnessScore(ds, giniHalfUp, scoreHalfUp) ==
    LET positions == calculateNetPositions(ds)
        balances  == Magnitudes([k \in 1..Len(positions) |-> positions[k].balance])
        n         == Len(balances)
        total     == SumValues(balances)
        numerator == GiniNumerator(balances)
        denominator == 2 * n * total
    IN  IF n = 0 THEN [giniCoefficient |-> 0, fairnessScore |-> ScoreScale]
        ELSE IF total = 0 THEN [giniCoefficient |-> 0, fairnessScore |-> ScoreScale]
        ELSE [giniCoefficient |->
                  RoundQuotient(numerator, denominator, GiniScale, giniHalfUp),
              fairnessScore |->
                  RoundQuotient(denominator - numerator, denominator, ScoreScale,
                                scoreHalfUp)]

\* Neither score has been asked for.
GiniIdle ==
    /\ patterns = <<>>
    /\ metrics = None
    /\ fairness = None

CalculateMetrics(giniHalfUp, scoreHalfUp) ==
    /\ metrics = None
    /\ metrics' = Some(calculateMetrics(patterns, giniHalfUp, scoreHalfUp))
    /\ UNCHANGED <<patterns, fairness>>
    /\ UNCHANGED outsideGini

CalculateFairnessScore(giniHalfUp, scoreHalfUp) ==
    /\ fairness = None
    /\ fairness' = Some(calculateFairnessScore(debts, giniHalfUp, scoreHalfUp))
    /\ UNCHANGED <<patterns, metrics>>
    /\ UNCHANGED outsideGini

(***************************************************************************)
(* Specifications.                                                          *)
(***************************************************************************)
\* One call of DebtOptimizerAgent.run on any debt list of the bounds.
SettleInit ==
    /\ debts \in DebtLists
    /\ minimumAmount \in MinimumAmounts
    /\ SettleCreated
    /\ OrchCreated
    /\ RunIdle
    /\ RetryIdle
    /\ RateIdle
    /\ CyclesIdle
    /\ GiniIdle

SettleNext ==
    \/ ExecuteBegin
    \/ ExecuteEmpty
    \/ MatchStep
    \/ ExecuteReturn
    \/ ValidateOutputPasses
    \/ ValidateOutputThrows

SpecSettle == SettleInit /\ [][SettleNext]_vars

\* One orchestrator: agents are registered and tasks are added, then execute
\* is called once.  The k-th task added has the id k.
OrchInit ==
    /\ debts = <<>>
    /\ minimumAmount = DefaultMinimumAmount
    /\ SettleCreated
    /\ OrchCreated
    /\ RunIdle
    /\ RetryIdle
    /\ RateIdle
    /\ CyclesIdle
    /\ GiniIdle

OrchNext ==
    \/ \E type \in AgentTypes :
          /\ NoCallStarted
          /\ taskQueue = <<>>
          /\ type \notin agents
          /\ RegisterAgent(type)
    \/ \E task \in Task(added + 1) :
          /\ NoCallStarted
          /\ added < MaxTasks
          /\ AddTask(task)
    \/ \E c \in {1} :
          \/ StartExecute(c)
          \/ DependenciesNotSatisfied(c)
          \/ NoAgentRegistered(c)
          \/ InvokeAgent(c)
          \/ AgentReturns(c)
          \/ AgentThrows(c)
          \/ ExecuteReturns(c)

SpecOrch == OrchInit /\ [][OrchNext]_vars

\* One orchestrator, the module-level singleton, used by two callers: execute
\* is called a second time while the first call is suspended in an agent run
\* or after it has ended, and addTask is called whenever no call is running
\* between two of its awaits.
OverlapNext ==
    \/ \E type \in AgentTypes :
          /\ NoCallStarted
          /\ taskQueue = <<>>
          /\ type \notin agents
          /\ RegisterAgent(type)
    \/ \E task \in Task(added + 1) :
          /\ \A c \in CallIds : pc[c] # "loop"
          /\ added < MaxTasks
          /\ AddTask(task)
    \/ \E c \in CallIds :
          \/ (IF c = 1 THEN TRUE ELSE pc[1] # "idle") /\ StartExecute(c)
          \/ DependenciesNotSatisfied(c)
          \/ NoAgentRegistered(c)
          \/ InvokeAgent(c)
          \/ AgentReturns(c)
          \/ AgentThrows(c)
          \/ ExecuteReturns(c)

SpecOverlap == OrchInit /\ [][OverlapNext]_vars

\* No settlement is in use.
SettleIdle ==
    /\ debts = <<>>
    /\ minimumAmount = DefaultMinimumAmount
    /\ SettleCreated

\* One call of run of an agent with any guardrails of the bounds, on any
\* input, with any validateOutput.
RunInit ==
    /\ guardrails \in GuardrailLists
    /\ runInput \in Values
    /\ outputOverride \in OutputOverrides
    /\ RunCreated
    /\ SettleIdle
    /\ OrchCreated
    /\ RetryIdle
    /\ RateIdle
    /\ CyclesIdle
    /\ GiniIdle

RunNext ==
    \/ RunCalled
    \/ GuardrailAccepts
    \/ GuardrailRejects
    \/ GuardrailThrows
    \/ ExecuteInvoked
    \/ \E output \in Values : ExecuteResolves(output)
    \/ ExecuteRejects
    \/ OutputAccepted
    \/ OutputRejected
    \/ MetricsBuilt
    \/ MetricsThrow
    \/ AuditStored
    \/ AuditFails

SpecRun == RunInit /\ [][RunNext]_vars

\* One call of retryWithBackoff with any attempt limit and delay of the bounds.
RetryInit ==
    /\ maxAttempts \in AttemptLimits
    /\ initialDelayMs \in InitialDelays
    /\ RetryCreated
    /\ SettleIdle
    /\ OrchCreated
    /\ RunIdle
    /\ RateIdle
    /\ CyclesIdle
    /\ GiniIdle

RetryNext ==
    \/ RetryCalled
    \/ FnInvoked
    \/ FnResolves
    \/ FnRejects
    \/ TimerFires
    \/ RetryThrows

SpecRetry == RetryInit /\ [][RetryNext]_vars

\* One RateLimitGuardrail with any limit of the bounds; the checks are made
\* in the order of their numbers, each on any input, while the clock runs.
RateInit ==
    /\ maxRequests \in 1..MaxRequestLimit
    /\ RateCreated
    /\ SettleIdle
    /\ OrchCreated
    /\ RunIdle
    /\ RetryIdle
    /\ CyclesIdle
    /\ GiniIdle

RateNext ==
    \/ \E k \in Checks, input \in RateInputs :
          /\ IF k = 1 THEN TRUE ELSE checkPc[k - 1] # "idle"
          /\ CheckReads(k, input)
    \/ \E k \in Checks : CheckRejects(k)
    \/ \E k \in Checks : CheckAccepts(k)
    \/ ClockTicks

SpecRate == RateInit /\ [][RateNext]_vars

\* Debts of equal amounts: detectCircularDebts is applied to them, and they
\* are settled by one call of run.
CycleInit ==
    /\ debts \in EqualDebtLists
    /\ minimumAmount \in MinimumAmounts
    /\ SettleCreated
    /\ CyclesIdle
    /\ OrchCreated
    /\ RunIdle
    /\ RetryIdle
    /\ RateIdle
    /\ GiniIdle

CycleNext ==
    \/ DetectCircularDebts
    \/ ExecuteBegin
    \/ ExecuteEmpty
    \/ MatchStep
    \/ ExecuteReturn
    \/ ValidateOutputPasses
    \/ ValidateOutputThrows

SpecCycles == CycleInit /\ [][CycleNext]_vars

\* One call of run on debts of equal amounts, with the progress that the
\* matching loop makes: optimizeDebts is synchronous code and waits for
\* nothing, so an iteration that can be made is made, and the return that
\* follows the loop is taken.
SpecMatchingLive ==
    CycleInit /\ [][SettleNext]_vars /\ WF_vars(MatchStep \/ ExecuteReturn)

\* The two scores, each computed once: calculateMetrics on any net positions
\* of the bounds, or calculateFairnessScore on any debt list of the bounds.
GiniInit ==
    /\ \/ patterns \in NetPositionLists /\ debts = <<>>
       \/ patterns = <<>> /\ debts \in DebtLists
    /\ minimumAmount = DefaultMinimumAmount
    /\ metrics = None
    /\ fairness = None
    /\ SettleCreated
    /\ OrchCreated
    /\ RunIdle
    /\ RetryIdle
    /\ RateIdle
    /\ CyclesIdle

GiniNext ==
    \/ \E giniHalfUp \in BOOLEAN, scoreHalfUp \in BOOLEAN :
          CalculateMetrics(giniHalfUp, scoreHalfUp)
    \/ \E giniHalfUp \in BOOLEAN, scoreHalfUp \in BOOLEAN :
          CalculateFairnessScore(giniHalfUp, scoreHalfUp)

SpecGini == GiniInit /\ [][GiniNext]_vars

\* Debts of several payers to two payees, of amounts one cent apart: one call
\* of run settles them.  The payees are the parties after the payers.
NumPayers == 3

MaxPayerDebts == 3

PayerCents == 4

Payers == 1..NumPayers

Payees == {NumPayers + 1, NumPayers + 2}

PayerDebts == [from : Payers, to : Payees, amount : {PayerCents * 10, (PayerCents + 1) * 10}]

PayerDebtLists == SeqsUpTo(PayerDebts, MaxPayerDebts)

PayersInit ==
    /\ debts \in PayerDebtLists
    /\ minimumAmount \in MinimumAmounts
    /\ SettleCreated
    /\ OrchCreated
    /\ RunIdle
    /\ RetryIdle
    /\ RateIdle
    /\ CyclesIdle
    /\ GiniIdle

SpecPayers == PayersInit /\ [][SettleNext]_vars

\* detectCircularDebts alone, on lists long enough to hold a circle of three
\* debts and a debt outside it.
MaxDetectDebts == 4

DetectInit ==
    /\ debts \in SeqsUpTo(EqualDebts, MaxDetectDebts)
    /\ minimumAmount = DefaultMinimumAmount
    /\ SettleCreated
    /\ CyclesIdle
    /\ OrchCreated
    /\ RunIdle
    /\ RetryIdle
    /\ RateIdle
    /\ GiniIdle

DetectNext == DetectCircularDebts

SpecDetect == DetectInit /\ [][DetectNext]_vars

(***************************************************************************)
(* Properties of the settlement.  The balances they speak of are computed  *)
(* here from the debt list itself, not by the operators that model the     *)
(* code.                                                                   *)
(***************************************************************************)
RECURSIVE NetBalance(_, _)
NetBalance(person, ds) ==
    IF ds = <<>> THEN 0
    ELSE (IF Head(ds).to = person THEN Head(ds).amount ELSE 0)
         - (IF Head(ds).from = person THEN Head(ds).amount ELSE 0)
         + NetBalance(person, Tail(ds))

PartiesOf(ds) == {ds[k].from : k \in 1..Len(ds)} \cup {ds[k].to : k \in 1..Len(ds)}

RECURSIVE SumBalances(_)
SumBalances(positions) ==
    IF positions = <<>> THEN 0
    ELSE Head(positions).balance + SumBalances(Tail(positions))

ExecuteReturned == phase \in {"ValidatingOutput", "Succeeded", "Failed"}

NonZeroParties == {p \in PartiesOf(debts) : NetBalance(p, debts) # 0}

ForgivenParties == {p \in PartiesOf(debts) : Abs(NetBalance(p, debts)) < minimumAmount}

Conservation == SumBalances(netPositions) = 0

\* Net positions of three parties, none of them zero, have been computed.
ConservationWitness ==
    /\ phase = "Executing"
    /\ Len(netPositions) = 3
    /\ \A k \in 1..Len(netPositions) : netPositions[k].balance # 0

\* C3: the number of emitted transactions, which is what optimizedTransactions
\* reports, is at most max(0, P - 1) for P the number of parties with a
\* non-zero net balance.
TransactionBound ==
    ExecuteReturned =>
        /\ result.optimizedTransactions = Len(result.transactions)
        /\ Len(result.transactions) <= Max(0, Cardinality(NonZeroParties) - 1)

\* The bound is met: three parties with a non-zero balance, two transactions.
TransactionBoundWitness ==
    /\ ExecuteReturned
    /\ Cardinality(NonZeroParties) = 3
    /\ result.optimizedTransactions = 2

\* C4: run fails exactly when some party that is both in the emitted
\* transactions and in the balances map differs by more than 0.01 (a
\* difference of exactly one cent counts either way), so a party that is in
\* no transaction never makes run fail.
ValidationOnlyOfSharedParties ==
    LET shared == DOMAIN result.balances \cap PartiesOf(result.transactions)
        differs(p, fpAbove) ==
            DifferenceExceeds(result.balances[p],
                              NetBalance(p, result.transactions), fpAbove)
    IN  /\ phase = "Failed" => \E p \in shared : \E fpAbove \in BOOLEAN : differs(p, fpAbove)
        /\ phase = "Succeeded" => \A p \in shared : \E fpAbove \in BOOLEAN : ~differs(p, fpAbove)

\* C5: a party whose absolute net balance is below minimumAmount is in no
\* emitted transaction and is in the returned balances with its net balance.
ForgivenessFilter ==
    ExecuteReturned =>
        \A p \in ForgivenParties :
            /\ p \notin PartiesOf(result.transactions)
            /\ p \in DOMAIN result.balances
            /\ result.balances[p] = NetBalance(p, debts)

\* A party with a non-zero balance was forgiven while the others were settled.
ForgivenessFilterWitness ==
    /\ ExecuteReturned
    /\ result.transactions # <<>>
    /\ \E p \in ForgivenParties : NetBalance(p, debts) # 0

(***************************************************************************)
(* Properties of the orchestrator.  The dependency graph they speak of is  *)
(* computed here from the queue the call found.                            *)
(***************************************************************************)
QueuedIds(c) == {queued[c][k].id : k \in 1..Len(queued[c])}

QueuedTask(c, taskId) ==
    queued[c][CHOOSE k \in 1..Len(queued[c]) : queued[c][k].id = taskId]

\* The pairs <<T, D>>: D is a declared dependency of the task T and the id of
\* a task of the queue.
DependencyEdges(tasks) ==
    LET ids == {tasks[k].id : k \in 1..Len(tasks)}
    IN  UNION {{<<tasks[k].id, d>> : d \in Range(tasks[k].dependencies) \cap ids} :
                   k \in 1..Len(tasks)}

\* The pairs <<T, D>>: T depends on D, directly or through other tasks.
DependsOn(tasks) ==
    LET edges == DependencyEdges(tasks)
        RECURSIVE Reach(_)
        Reach(n) ==
            IF n <= 1 THEN edges
            ELSE LET shorter == Reach(n - 1)
                 IN  shorter \cup
                     UNION {{<<p[1], e[2]>> : e \in {f \in edges : f[1] = p[2]}} :
                                p \in shorter}
    IN  Reach(Len(tasks))

OnCycle(tasks, taskId) == <<taskId, taskId>> \in DependsOn(tasks)

Cyclic(tasks) == \E k \in 1..Len(tasks) : OnCycle(tasks, tasks[k].id)

Succeeded(rs, taskId) == HasResult(rs, taskId) /\ ResultOf(rs, taskId).success

\* C6: when the queue has a dependency cycle, execute throws a circular
\* dependency error that names a task on a cycle, calls no agent and records
\* no TaskResult.
CircularDependencyFailsFast ==
    \A c \in CallIds :
        (pc[c] # "idle" /\ Cyclic(queued[c])) =>
            /\ pc[c] = "threw"
            /\ outcome[c].kind = "CircularDependency"
            /\ OnCycle(queued[c], outcome[c].task)
            /\ invoked[c] = <<>>
            /\ pending[c] = {}
            /\ results = <<>>

\* The call threw although a task outside the cycle was ready to run.
CircularDependencyWitness ==
    /\ pc[1] = "threw"
    /\ \E k \in 1..Len(queued[1]) :
          /\ ~OnCycle(queued[1], queued[1][k].id)
          /\ queued[1][k].dependencies = <<>>
          /\ queued[1][k].type \in agents

\* C7: over an acyclic queue, when the agent of a task has been called every
\* declared dependency of the task that is in the queue has its TaskResult
\* recorded, and at most one agent is running.
TopologicalOneAtATime ==
    \A c \in CallIds :
        ~Cyclic(queued[c]) =>
            /\ Cardinality(pending[c]) <= 1
            /\ \A taskId \in pending[c] :
                  \A d \in Range(QueuedTask(c, taskId).dependencies) \cap QueuedIds(c) :
                      HasResult(results, d)

\* The agent of a task that depends on a task of the queue is running.
TopologicalWitness ==
    /\ pc[1] = "awaiting"
    /\ \E taskId \in pending[1] :
          Range(QueuedTask(1, taskId).dependencies) \cap QueuedIds(1) # {}

\* C8: the agent of a task is called only when every declared dependency has a
\* successful TaskResult; a task with a dependency that failed, was skipped
\* or is not in the queue is never run and is reported as failed for its
\* dependencies.
DependencyGate ==
    \A c \in CallIds :
        /\ \A taskId \in Range(invoked[c]) :
              \A d \in Range(QueuedTask(c, taskId).dependencies) : Succeeded(results, d)
        /\ pc[c] = "returned" =>
              \A k \in 1..Len(queued[c]) :
                  LET task == queued[c][k]
                  IN  (\E d \in Range(task.dependencies) : ~Succeeded(outcome[c].results, d)) =>
                          /\ task.id \notin Range(invoked[c])
                          /\ HasResult(outcome[c].results, task.id)
                          /\ ~ResultOf(outcome[c].results, task.id).success
                          /\ ResultOf(outcome[c].results, task.id).error
                                 = "Dependencies not satisfied"

\* A task was skipped because its dependency had itself been skipped.
DependencyGateWitness ==
    /\ pc[1] = "returned"
    /\ \E k \in 1..Len(queued[1]) :
          \E d \in Range(queued[1][k].dependencies) :
              /\ HasResult(outcome[1].results, d)
              /\ ResultOf(outcome[1].results, d).error = "Dependencies not satisfied"
              /\ ResultOf(outcome[1].results, queued[1][k].id).error
                     = "Dependencies not satisfied"

\* C9: a call over an acyclic queue returns a report with exactly one
\* TaskResult for every task of the queue, and every task whose dependencies
\* all succeeded was attempted: its agent was called when one is registered
\* for its type, and the task failed for the missing agent otherwise.
FailureIsolation ==
    \A c \in CallIds :
        pc[c] = "returned" =>
            LET rs == outcome[c].results
            IN  /\ Len(rs) = Len(queued[c])
                /\ \A taskId \in QueuedIds(c) :
                      Cardinality({k \in 1..Len(rs) : rs[k].taskId = taskId}) = 1
                /\ \A k \in 1..Len(queued[c]) :
                      LET task == queued[c][k]
                      IN  (\A d \in Range(task.dependencies) : Succeeded(rs, d)) =>
                              IF task.type \in agents
                              THEN task.id \in Range(invoked[c])
                              ELSE ResultOf(rs, task.id).error = "No agent registered"

\* The agent of the first task failed and the agent of the second was called
\* all the same.
FailureIsolationWitness ==
    /\ pc[1] = "returned"
    /\ Len(invoked[1]) = 2
    /\ ~ResultOf(outcome[1].results, invoked[1][1]).success
    /\ ResultOf(outcome[1].results, invoked[1][2]).success

\* C10: the report is a success exactly when every TaskResult is one, and
\* errors holds one message for each failed task and none for any other.
ReportConsistency ==
    \A c \in CallIds :
        pc[c] = "returned" =>
            LET rs == outcome[c].results
                errs == outcome[c].errors
            IN  /\ outcome[c].success <=> \A k \in 1..Len(rs) : rs[k].success
                /\ \A k \in 1..Len(rs) :
                      Cardinality({m \in 1..Len(errs) : errs[m].task = rs[k].taskId})
                          = IF rs[k].success THEN 0 ELSE 1
                /\ \A m \in 1..Len(errs) : HasResult(rs, errs[m].task)

\* A report with a successful and a failed task.
ReportConsistencyWitness ==
    /\ pc[1] = "returned"
    /\ ~outcome[1].success
    /\ \E k \in 1..Len(outcome[1].results) : outcome[1].results[k].success
    /\ \E k \in 1..Len(outcome[1].results) : ~outcome[1].results[k].success

(***************************************************************************)
(* Properties of BaseAgent.run.                                            *)
(***************************************************************************)
RunSettled == runPhase \in {"Returned", "Threw"}

AllGuardrailsAccept == \A k \in 1..Len(guardrails) : guardrails[k].onInput = "valid"

\* The first guardrail, in the order of registration, that does not accept
\* the input; 0 when all of them accept it.
FirstRefusal ==
    IF AllGuardrailsAccept THEN 0
    ELSE CHOOSE k \in 1..Len(guardrails) :
             /\ guardrails[k].onInput # "valid"
             /\ \A m \in 1..(k - 1) : guardrails[m].onInput = "valid"

InputIsRejected == FirstRefusal # 0 /\ guardrails[FirstRefusal].onInput = "invalid"

PostGuardrailsGuardOutput ==
    runPhase = "Returned" =>
        \A k \in 1..Len(guardrails) : guardrails[k].onOutput = "valid"

\* C13: when a call of run has ended, logExecution has been called exactly
\* once, with success true exactly when run returned an output and with an
\* error exactly when run threw.
OneAuditRecordPerRun ==
    RunSettled =>
        /\ Len(logCalls) = 1
        /\ logCalls[1].success <=> runOutcome.kind = "returned"
        /\ logCalls[1].error # None <=> runOutcome.kind = "threw"

\* C14: whatever happens while the audit record is built and emitted, run
\* returns the output, or throws the error, that the try statement had
\* resolved to.
AuditFailureNeverPropagated ==
    RunSettled =>
        IF runSuccess
        THEN runOutcome = [kind |-> "returned", value |-> runResult[1]]
        ELSE runError # None /\ runOutcome = [kind |-> "threw", error |-> runError[1]]

\* C15: the guardrails are asked in the order of their registration, none is
\* asked after one that did not accept the input, and the validation error
\* carries the name and the reason of the first guardrail that rejected.
FailFastInOrder ==
    /\ \A m \in 1..Len(evaluated) : evaluated[m] = m
    /\ \A m \in 1..(Len(evaluated) - 1) : guardrails[m].onInput = "valid"
    /\ (runPhase \notin {"Created", "ValidatingInput"} /\ InputIsRejected) =>
           /\ evaluated = [m \in 1..FirstRefusal |-> m]
           /\ runError = Some([kind      |-> "Input validation failed",
                               guardrail |-> guardrails[FirstRefusal].name,
                               reason    |-> guardrails[FirstRefusal].reason])

\* The first of two guardrails rejected the input and the second, which would
\* have rejected it with another name and reason, was not asked.
FailFastWitness ==
    /\ RunSettled
    /\ Len(guardrails) = 2
    /\ guardrails[1].onInput = "invalid"
    /\ guardrails[2].onInput = "invalid"
    /\ guardrails[1].name # guardrails[2].name
    /\ guardrails[1].reason # guardrails[2].reason
    /\ evaluated = <<1>>

(***************************************************************************)
(* Properties of retryWithBackoff.                                         *)
(***************************************************************************)
\* C16: with maxAttempts >= 1, at most one call of fn is in flight and at most
\* maxAttempts calls are made; the value returned is that of the last call
\* made, the first one to succeed; after maxAttempts failures the error of the
\* last call is thrown; the k-th wait lasts initialDelayMs * 2^(k-1), and there
\* is one wait after every failed call but the maxAttempts-th.
RetryContract ==
    maxAttempts >= 1 =>
        /\ fnInFlight <= 1
        /\ fnCalls <= maxAttempts
        /\ \A k \in 1..Len(delays) : delays[k] = initialDelayMs * 2^(k - 1)
        /\ retryPc = "Returned" =>
               /\ fnInFlight = 0
               /\ retryOutcome = [kind |-> "returned", value |-> [value |-> fnCalls]]
               /\ Len(delays) = fnCalls - 1
        /\ retryPc = "Threw" =>
               /\ fnInFlight = 0
               /\ fnCalls = maxAttempts
               /\ retryOutcome = [kind |-> "threw",
                                  error |-> [kind |-> "fn threw", attempt |-> maxAttempts]]
               /\ Len(delays) = maxAttempts - 1

\* The default call: three failures, waits of 1000 and 2000 ms, the third
\* error thrown.
RetryContractWitness ==
    /\ retryPc = "Threw"
    /\ maxAttempts = DefaultMaxAttempts
    /\ initialDelayMs = DefaultInitialDelayMs
    /\ delays = <<DefaultInitialDelayMs, 2 * DefaultInitialDelayMs>>

(***************************************************************************)
(* Properties of the RateLimitGuardrail.                                   *)
(***************************************************************************)
CheckDone(k) == checkPc[k] = "done"

CheckValid(k) == CheckDone(k) /\ checkResult[k][1].valid

\* The slots the check found free in the window of its identifier.
SlotsFound(k) ==
    maxRequests - Len(validHistory[k]) + (IF CheckValid(k) THEN 1 ELSE 0)

\* C17: of two checks of one identifier that read the clock at the same
\* instant, with one slot left in the window for the first of them, at most
\* one is accepted.
RateLimitAtomic ==
    \A a, b \in Checks :
        (/\ a # b
         /\ CheckDone(a) /\ CheckDone(b)
         /\ checkIdentifier[a] = checkIdentifier[b]
         /\ checkNow[a] = checkNow[b]
         /\ Max(SlotsFound(a), SlotsFound(b)) = 1)
        => ~(CheckValid(a) /\ CheckValid(b))

\* A limit of two with one earlier request in the window: of the two checks
\* made at the same instant one was accepted and the other rejected.
RateLimitWitness ==
    /\ maxRequests = 2
    /\ \E a, b \in Checks :
          /\ a # b
          /\ CheckDone(a) /\ CheckDone(b)
          /\ checkIdentifier[a] = checkIdentifier[b]
          /\ checkNow[a] = checkNow[b]
          /\ SlotsFound(a) = 1
          /\ CheckValid(a)
          /\ ~CheckValid(b)

(***************************************************************************)
(* The input of a dependent task.                                          *)
(***************************************************************************)
\* C18: the input handed to the agent of a task without dependencies is the
\* input of the task; for a task with dependencies it is the input of the task
\* and a field dependencies that maps exactly the declared dependency ids,
\* each to the output recorded for that dependency.
PreparedInput ==
    \A c \in CallIds :
        agentInput[c] # None =>
            LET task  == QueuedTask(c, invoked[c][Len(invoked[c])])
                input == agentInput[c][1]
            IN  IF task.dependencies = <<>>
                THEN input = task.input
                ELSE /\ DOMAIN input = DOMAIN task.input \cup {"dependencies"}
                     /\ \A field \in DOMAIN task.input : input[field] = task.input[field]
                     /\ DOMAIN input.dependencies = Range(task.dependencies)
                     /\ \A d \in Range(task.dependencies) :
                           /\ HasResult(results, d)
                           /\ ResultOf(results, d).output = <<input.dependencies[d]>>
                           /\ input.dependencies[d] = [producedBy |-> d]

\* The agent of a task that depends on another task has been called.
PreparedInputWitness ==
    /\ pc[1] = "awaiting"
    /\ agentInput[1] # None
    /\ QueuedTask(1, invoked[1][Len(invoked[1])]).dependencies # <<>>
    /\ "dependencies" \in DOMAIN agentInput[1][1]

(***************************************************************************)
(* Properties of circles of debts.                                         *)
(***************************************************************************)
\* Three debts among three parties, each of whom owes once and is owed once:
\* one circle A owes B, B owes C, C owes A.
SingleThreePartyCycle(ds) ==
    /\ Len(ds) = 3
    /\ Cardinality({ds[k].from : k \in 1..3}) = 3
    /\ {ds[k].to : k \in 1..3} = {ds[k].from : k \in 1..3}
    /\ \A k, m \in 1..3 : ds[k].amount = ds[m].amount

\* C19: for the debts of a single circle of three parties detectCircularDebts
\* returns one circle and no remaining debt.
SingleCycleReportedOnce ==
    (detected # None /\ SingleThreePartyCycle(debts)) =>
        /\ Len(detected[1].circular) = 1
        /\ detected[1].remaining = <<>>

\* C20: when the net balance of every party is zero the settlement has no
\* transaction, reports optimizedTransactions 0, and returns the balance 0 for
\* every party.
CancelledDebtsNeedNoTransaction ==
    (ExecuteReturned /\ \A p \in PartiesOf(debts) : NetBalance(p, debts) = 0) =>
        /\ result.transactions = <<>>
        /\ result.optimizedTransactions = 0
        /\ DOMAIN result.balances = PartiesOf(debts)
        /\ \A p \in DOMAIN result.balances : result.balances[p] = 0

\* run has returned the settlement of a circle of three equal debts.
CancelledDebtsWitness ==
    /\ phase = "Succeeded"
    /\ SingleThreePartyCycle(debts)
    /\ result.optimizedTransactions = 0

(***************************************************************************)
(* Further properties of the settlement.                                   *)
(***************************************************************************)
CreditorParties == {p \in PartiesOf(debts) : NetBalance(p, debts) > 0}

DebtorParties == {p \in PartiesOf(debts) : NetBalance(p, debts) < 0}

\* The indexes of the returned transactions from one party to another.
PaymentsBetween(payer, payee) ==
    {k \in 1..Len(result.transactions) :
        result.transactions[k].from = payer /\ result.transactions[k].to = payee}

EqualMagnitudes(values) ==
    \A a \in 1..Len(values), b \in 1..Len(values) : Abs(values[a]) = Abs(values[b])

\* The coefficient is between 0 and 1, is 0 when told to be, and the score is
\* between 0 and 100.
WithinBounds(scores, mustBeZero) ==
    /\ 0 <= scores.giniCoefficient /\ scores.giniCoefficient <= GiniScale
    /\ mustBeZero => scores.giniCoefficient = 0
    /\ 0 <= scores.fairnessScore /\ scores.fairnessScore <= ScoreScale

\* C22: for a non-empty list of balances the Gini coefficient of their
\* magnitudes is between 0 and 1, and is 0 when all the magnitudes are equal,
\* all zero included; the fairness score is between 0 and 100.  This holds for
\* calculateGini with calculateMetrics, and for calculateFairnessScore on the
\* net balances of a debt list.
GiniBounds ==
    /\ (metrics # None /\ patterns # <<>>) =>
           WithinBounds(metrics[1], EqualMagnitudes(patterns))
    /\ (fairness # None /\ debts # <<>>) =>
           WithinBounds(fairness[1],
                        \A p \in PartiesOf(debts), q \in PartiesOf(debts) :
                            Abs(NetBalance(p, debts)) = Abs(NetBalance(q, debts)))

\* calculateFairnessScore has scored three parties with unequal balances.
GiniBoundsWitness ==
    /\ fairness # None
    /\ Cardinality(PartiesOf(debts)) = 3
    /\ fairness[1].giniCoefficient > 0
    /\ fairness[1].fairnessScore < ScoreScale

\* The positions of the list that are not zero.
Holders(values) == {k \in 1..Len(values) : values[k] # 0}

\* C23: the fairness score of calculateMetrics is (1 - gini) * 100 rounded to
\* one decimal; when one of n parties holds the whole imbalance the Gini
\* coefficient is (n - 1) / n to the four decimals it is rounded to, and for
\* four parties it is 0.75 with the score 25.0.
ScoreIsComplementOfGini ==
    metrics # None =>
        LET n == Len(patterns)
            giniCoefficient == metrics[1].giniCoefficient
            fairnessScore == metrics[1].fairnessScore
        IN  /\ 2 * Abs(GiniScale * fairnessScore
                        - ScoreScale * (GiniScale - giniCoefficient)) <= GiniScale
            /\ Cardinality(Holders(patterns)) = 1 =>
                   2 * Abs(n * giniCoefficient - GiniScale * (n - 1)) <= n
            /\ (n = 4 /\ Cardinality(Holders(patterns)) = 1) =>
                   /\ giniCoefficient = 7500
                   /\ fairnessScore = 250

\* calculateMetrics has scored four parties of which one holds the imbalance.
ScoreIsComplementWitness ==
    /\ metrics # None
    /\ Len(patterns) = 4
    /\ Cardinality(Holders(patterns)) = 1
    /\ metrics[1].fairnessScore = 250

(***************************************************************************)
(* The sliding window of the RateLimitGuardrail.                           *)
(***************************************************************************)
\* The accepted checks of an identifier whose timestamp is in (t - WindowMs, t].
AcceptedInWindow(identifier, t) ==
    {k \in Checks : /\ CheckValid(k)
                    /\ checkIdentifier[k] = identifier
                    /\ t - WindowMs < checkNow[k]
                    /\ checkNow[k] <= t}

\* The check returns in this step.
CheckReturns(k) == checkPc[k] = "read" /\ checkPc'[k] = "done"

WindowBounded ==
    \A identifier \in Identifiers :
        /\ Len(requests[identifier]) <= maxRequests
        /\ \A t \in 0..MaxClock :
               Cardinality(AcceptedInWindow(identifier, t)) <= maxRequests

WindowWrittenByOwnAcceptedCheck ==
    /\ \A k \in Checks :
           (CheckReturns(k) /\ ~checkResult'[k][1].valid) => requests' = requests
    /\ \A identifier \in Identifiers :
           requests'[identifier] # requests[identifier] =>
               \E k \in Checks : /\ CheckReturns(k)
                                 /\ checkIdentifier[k] = identifier
                                 /\ checkResult'[k][1].valid

\* C24: at every instant t the accepted checks of an identifier with a
\* timestamp in (t - windowMs, t] are at most maxRequests, and the stored
\* window of an identifier holds at most maxRequests timestamps; a rejected
\* check adds no timestamp, and a window is changed only by an accepted check
\* of its own identifier.
SlidingWindowLimit == []WindowBounded /\ [][WindowWrittenByOwnAcceptedCheck]_vars

\* A limit of one: a check was accepted, the next of the same identifier was
\* rejected, and a third was accepted once the first had left the window.
SlidingWindowWitness ==
    /\ maxRequests = 1
    /\ \A k \in Checks : CheckDone(k) /\ checkIdentifier[k] = checkIdentifier[1]
    /\ CheckValid(1) /\ ~CheckValid(2) /\ CheckValid(3)
    /\ checkNow[3] - checkNow[1] >= WindowMs
    /\ Len(requests[checkIdentifier[1]]) = 1

ReportedIds(c) ==
    {outcome[c].results[k].taskId : k \in 1..Len(outcome[c].results)}

\* The agent of the task was run by the call and resolved.
SucceededInCall(c, taskId) ==
    /\ taskId \in Range(invoked[c])
    /\ taskId \notin pending[c]
    /\ \A k \in 1..Len(errors[c]) : errors[c][k].task # taskId

\* The tasks the call has failed for their dependencies.
SkippedInCall(c) ==
    {errors[c][k].task : k \in {n \in 1..Len(errors[c]) :
                                   errors[c][n].message = "Dependencies not satisfied"}}

\* C26: execute calls that overlap on one orchestrator do not interfere: the
\* report of each call has exactly the results of the tasks that call ordered,
\* and a call fails a task for its dependencies only when one of them did not
\* succeed in that call.
OverlappingCallsIsolated ==
    \A c \in CallIds :
        /\ pc[c] = "returned" => ReportedIds(c) = QueuedIds(c)
        /\ \A taskId \in SkippedInCall(c) :
              \E d \in Range(QueuedTask(c, taskId).dependencies) :
                  ~SucceededInCall(c, d)

\* The tasks of the queue and those a call found in the queue.
KnownIds ==
    {taskQueue[k].id : k \in 1..Len(taskQueue)} \cup UNION {QueuedIds(c) : c \in CallIds}

\* C27: a task added with addTask is not dropped: it is in the queue until an
\* execute call finds it there, which then orders it with the queue, also when
\* it was added while a call was suspended in an agent run.  (A task that is
\* neither in the queue nor was found by a call gets no TaskResult from any
\* call.)
AddedTaskNeverDropped == \A id \in 1..added : id \in KnownIds

(***************************************************************************)
(* The circles of detectCircularDebts.                                     *)
(***************************************************************************)
\* The 0-based indexes of the debts that are in a reported circle.
CircleIndexes ==
    UNION {{detected[1].circular[c][e].index : e \in 1..Len(detected[1].circular[c])} :
              c \in 1..Len(detected[1].circular)}

\* The debts of the list that are in no reported circle, in their order.
DebtsOutsideCircles ==
    LET keep == {k \in 1..Len(debts) : (k - 1) \notin CircleIndexes}
    IN  [n \in 1..Cardinality(keep) |->
            debts[CHOOSE k \in keep : Cardinality({m \in keep : m < k}) = n - 1]]

\* The circle is made of debts of the list, each leads to the payer of the
\* next and the last to the payer of the first, and its payers are at least
\* three different parties.
ClosedPath(circle) ==
    /\ Len(circle) >= 3
    /\ \A e \in 1..Len(circle) :
          /\ circle[e].index \in 0..(Len(debts) - 1)
          /\ debts[circle[e].index + 1] =
                 [from |-> circle[e].from, to |-> circle[e].to,
                  amount |-> circle[e].amount]
          /\ circle[e].to = circle[(e % Len(circle)) + 1].from
    /\ Cardinality({circle[e].from : e \in 1..Len(circle)}) = Len(circle)

\* Some debts of the list lead around three or more different parties.
HasLongCycle(ds) ==
    \E m \in 3..NumParties :
        \E around \in [1..m -> Parties] :
            /\ \A a, b \in 1..m : a # b => around[a] # around[b]
            /\ \A a \in 1..m :
                  \E k \in 1..Len(ds) : /\ ds[k].from = around[a]
                                        /\ ds[k].to = around[(a % m) + 1]

\* C28: every debt of the input is in remaining or in a reported circle and
\* never in both; every reported circle is a closed directed path over at
\* least three different parties; the remaining debts hold no directed cycle
\* of three or more parties.
CirclesPartitionDebts ==
    detected # None =>
        /\ detected[1].remaining = DebtsOutsideCircles
        /\ \A c \in 1..Len(detected[1].circular) : ClosedPath(detected[1].circular[c])
        /\ ~HasLongCycle(detected[1].remaining)

\* A circle of three debts was reported and a fourth debt, which is in no
\* circle, remains.
CirclesPartitionWitness ==
    /\ detected # None
    /\ Len(debts) = 4
    /\ Len(detected[1].circular) >= 1
    /\ Len(detected[1].remaining) = 1

(***************************************************************************)
(* The transactions of a settlement and the loop that makes them.          *)
(***************************************************************************)
\* C29: every transaction of a settlement has an amount of at least 0.01 and
\* a payer other than its payee, the payer has a negative net balance in the
\* debt list and the payee a positive one, so that no party pays in one
\* transaction and is paid in another.
PayersAndPayeesApart ==
    ExecuteReturned =>
        /\ \A k \in 1..Len(result.transactions) :
              LET t == result.transactions[k]
              IN  /\ t.amount >= MinTransactionAmount
                  /\ t.from # t.to
                  /\ NetBalance(t.from, debts) < 0
                  /\ NetBalance(t.to, debts) > 0
        /\ {result.transactions[k].from : k \in 1..Len(result.transactions)}
               \cap {result.transactions[k].to : k \in 1..Len(result.transactions)} = {}

\* A settlement in which one party pays two others.
PayersAndPayeesWitness ==
    /\ phase = "Succeeded"
    /\ Len(result.transactions) = 2
    /\ result.transactions[1].from = result.transactions[2].from
    /\ result.transactions[1].to # result.transactions[2].to

\* The loop of optimizeDebts has been reached.
LoopReached == phase # "Created" /\ debts # <<>>

\* The bound of the claim as it is written.
IterationsBelowSum == iterations <= Len(creditors) + Len(debtors) - 1

\* C30, as the claim states it: the matching loop runs at most
\* (creditors + debtors - 1) iterations.
LoopBoundAsStated == LoopReached => IterationsBelowSum

\* One iteration of the matching loop is made in this step.
LoopIterates == iterations' = iterations + 1

\* The creditor or the debtor of the iteration is at zero after it, and a
\* pointer has moved on.
IterationSettlesOne ==
    /\ creditors'[i + 1].balance = 0 \/ debtors'[j + 1].balance = 0
    /\ i' >= i /\ j' >= j
    /\ i' + j' > i + j

\* C30, amended: every iteration of the matching loop brings the creditor or
\* the debtor it looks at to exactly zero and moves at least one pointer on;
\* the loop makes at most max(0, creditors + debtors - 1) iterations, which is
\* no iteration when there is neither a creditor nor a debtor, and it ends.
MatchingLoopTerminates ==
    /\ [](LoopReached =>
              iterations <= Max(0, Len(creditors) + Len(debtors) - 1))
    /\ [][LoopIterates => IterationSettlesOne]_vars
    /\ (phase = "Executing") ~> ExecuteReturned

\* The loop has ended after as many iterations as the bound allows, more than
\* one.
MatchingLoopWitness ==
    /\ ExecuteReturned
    /\ iterations >= 2
    /\ iterations = Len(creditors) + Len(debtors) - 1

====
